---- MODULE Spec2Model ----
(***************************************************************************)
(* Model of the transcript refinement front end (frontend/src/App.tsx):     *)
(* the LLM refinement run (onLLMProcess, processStream, abortLLMProcess),   *)
(* the progress counter with its reset timer, and the streaming transport   *)
(* that feeds it.                                                           *)
(*                                                                          *)
(* The specifications share the variables, each moving one part:            *)
(*   Spec        the LLM run over any stream the transport may deliver;     *)
(*   SpecServer  the run fed by a rewrite service that admits blocks under  *)
(*               the request's parallel value;                              *)
(*   SpecApp     the run beside onUpload, onProcess and saveBlock;          *)
(*   SpecTimer   the run with the reset timer allowed to fire;              *)
(*   SpecDiff    calls of diffToHtml (utils/diff.ts);                       *)
(*   SpecReport  the change report of components/DiffSidebar.tsx;           *)
(*   SpecRead    the read loop of processStream over chunks of text;        *)
(*   SpecIgnored the run on deltas and frames with another event name;      *)
(*   SpecTasks   the run beside onUpload and onProcess, without frames;     *)
(*   SpecSettle  the run whose pending requests come to an end.             *)
(*                                                                          *)
(* Strings are sequences of one-character strings, so that concatenation    *)
(* and emptiness are those of the code.  A nullable value is a sequence of  *)
(* length at most one: None is null, Some(x) is x.                          *)
(***************************************************************************)
EXTENDS Integers, Sequences, FiniteSets, TLC

\* ---------------------------------------------------------------- bounds
NumBlocks == 2      \* largest number of blocks of the parsed document
MaxFrames == 2      \* frames the transport delivers over a whole behaviour
MaxEdits == 1       \* uploads, rule runs and block saves over a whole behaviour
MaxLenA == 2        \* longest first argument of diffToHtml, in characters
MaxLenB == 3        \* longest second argument of diffToHtml, in characters
MaxOrig == 2        \* most blocks of the original list of a change report
MaxProc == 2        \* most blocks of the rewritten list of a change report
MaxPieces == 4      \* most lines the text of a response body is made of

VARIABLES
  doc,                   \* useState doc: the parsed document (nullable)
  processed,             \* useState processed: the output document (nullable)
  tab,                   \* useState tab
  loading,               \* useState loading
  activeTask,            \* useState activeTask: "null", "rule" or "llm"
  abortControllerRef,    \* abortControllerRef.current: "null" or "ctrl"
  signalAborted,         \* signal.aborted of the controller of the latest run
  completedBlocksRef,    \* completedBlocksRef.current
  processingProgress,    \* useState processingProgress
  processingResetTimer,  \* processingResetTimer.current is a pending timeout
  toasts,                \* notices issued since the latest run started
  pc,                    \* where the LLM run is suspended
  llmPayload,            \* llmPayload.blocks of the latest run
  requests,              \* rewrite requests issued by the latest run
  streamEnd,             \* how the streaming request of the latest run ended
  syncEnd,               \* how the synchronous request of the latest run ended
  received,              \* per block id, the delta text delivered so far
  malformed,             \* whether a malformed frame was skipped, and then an event applied
  docAtStreamEnd,        \* the output document when the stream was cut short
  nframes,               \* frames delivered so far
  \* the rewrite service behind the streaming endpoint
  parallelism,           \* useState parallelism
  parallel,              \* llmPayload.parallel of the latest run (0: no run yet)
  tasks,                 \* per block of the request: "Queued", "Streaming" or "Completed"
  touched,               \* ids of the blocks an event of the latest run was applied to
  \* the other handlers that write the documents
  uploadPc,              \* where onUpload is suspended
  rulePc,                \* where onProcess is suspended
  savePc,                \* where saveBlock is suspended
  nedits,                \* uploads, rule runs and block saves started so far
  uploadStart,           \* doc and processed when the latest onUpload was called
  ruleStart,             \* doc and processed when the latest onProcess was called
  \* utils/diff.ts
  diffA,                 \* diffToHtml's argument a
  diffB,                 \* diffToHtml's argument b
  diffOut,               \* diffToHtml's out array, one segment per push
  diffHtml,              \* the string diffToHtml returns
  diffPc,                \* "input" before the call, "done" after it
  \* components/DiffSidebar.tsx
  original,              \* the prop original
  procList,              \* procList = processed ?? []
  changed,               \* the results array of the useMemo
  consumedIds,           \* consumedIds
  consumedIndexes,       \* consumedIndexes
  counterparts,          \* per original block, the index of its counterpart
  reportPc,              \* "input" before the useMemo runs, "done" after it
  \* the read loop of processStream, character by character
  wire,                  \* the text of the response body
  nread,                 \* how much of it reader.read() has handed over
  streamBuffer,          \* processStream's buffer
  emitted,               \* the frames handed to emit, in order
  loopPc                 \* "read" while the loop runs, "done" after its break

\* The variables of the LLM run.
runVars == << doc, processed, tab, loading, activeTask, abortControllerRef,
              signalAborted, completedBlocksRef, processingProgress,
              processingResetTimer, toasts, pc, llmPayload, requests, streamEnd,
              syncEnd, received, malformed, docAtStreamEnd, nframes >>

serverVars == << parallelism, parallel, tasks, touched >>

editVars == << uploadPc, rulePc, savePc, nedits, uploadStart, ruleStart >>

diffVars == << diffA, diffB, diffOut, diffHtml, diffPc >>

reportVars == << original, procList, changed, consumedIds, consumedIndexes,
                 counterparts, reportPc >>

readVars == << wire, nread, streamBuffer, emitted, loopPc >>

vars == << runVars, serverVars, editVars, diffVars, reportVars, readVars >>

\* ------------------------------------------------------------ data model
None == << >>
Some(x) == << x >>

\* A block of a document; the id of the k-th parsed block is k.
Block(k, c, p) ==
  [id |-> k, speaker |-> "S", timestamp |-> "00:01", content |-> c, processed |-> p]

\* The documents the parser may have produced: 0..NumBlocks blocks.
ParsedDoc(n) == [blocks |-> [k \in 1..n |-> Block(k, <<"s">>, FALSE)]]

\* An id carried by an event that matches no block of the document.
NoSuchId == 0

EventIds == 0..NumBlocks

\* Text carried by a stream event.
Texts == { << >>, <<"a">>, <<"b">> }

\* A frame of the stream: its event name and what its data: line holds.
\* json = "ok": data parses to an object with the given id and text;
\* json = "bad": data is not valid JSON; json = "none": no data.
Frames ==
  [event : {"delta", "block_end"}, json : {"ok"}, id : EventIds, text : Texts]
  \cup [event : {"message"}, json : {"ok"}, id : {1}, text : {<<"a">>}]
  \cup [event : {"delta", "block_end"}, json : {"bad", "none"}, id : {NoSuchId}, text : {<< >>}]


\* The blocks of a nullable document (none while it is null).
OutBlocksOf(d) == IF d = None THEN << >> ELSE d[1].blocks

\* ------------------------------------------------- event application
Min(a, b) == IF a < b THEN a ELSE b

\* Math.round((completed / total) * 100), total > 0.
Percent(completed, total) == (200 * completed + total) \div (2 * total)

\* The state an event is applied to: the output document, the completed
\* counter and the progress shown; total is totalBlocks of the run.
EventState(p, c, g, t) == [processed |-> p, completed |-> c, progress |-> g, total |-> t]

\* applyDelta with the increment put in front of the buffer.
applyDeltaPrepend(st, id, text) ==
  IF st.processed = None THEN st
  ELSE LET prev == st.processed[1]
       IN [st EXCEPT !.processed = Some([blocks |->
             [k \in DOMAIN prev.blocks |->
                IF prev.blocks[k].id = id
                  THEN [prev.blocks[k] EXCEPT !.content = text \o @]
                  ELSE prev.blocks[k]]])]

\* applyDelta: append text to the content of the block carrying id.
applyDelta(st, id, text) ==
  IF st.processed = None THEN st
  ELSE LET prev == st.processed[1]
       IN [st EXCEPT !.processed = Some([blocks |->
             [k \in DOMAIN prev.blocks |->
                IF prev.blocks[k].id = id
                  THEN [prev.blocks[k] EXCEPT !.content = @ \o text]
                  ELSE prev.blocks[k]]])]

\* markEnd's document part with `text` in place of `text || b.content`.
markEndBlocksAlways(prev, id, text) ==
  [blocks |->
     [k \in DOMAIN prev.blocks |->
        IF prev.blocks[k].id = id
          THEN [prev.blocks[k] EXCEPT !.content = text, !.processed = TRUE]
          ELSE prev.blocks[k]]]

\* A markEnd that keeps only the block it ends.
markEndBlocksDropOthers(prev, id, text) ==
  [blocks |-> SelectSeq(prev.blocks, LAMBDA b : b.id = id)]

\* The document part of markEnd: text || b.content, processed: true.
markEndBlocks(prev, id, text) ==
  [blocks |->
     [k \in DOMAIN prev.blocks |->
        IF prev.blocks[k].id = id
          THEN [prev.blocks[k] EXCEPT
                  !.content = IF text # << >> THEN text ELSE @,
                  !.processed = TRUE]
          ELSE prev.blocks[k]]]

\* The counter part of markEnd: Math.min(totalBlocks, completed + 1).
markEndCount(completed, total) == Min(total, completed + 1)

\* markEnd: count the block, update it, show the percentage.
markEnd(st, id, text) ==
  LET c == markEndCount(st.completed, st.total)
  IN [st EXCEPT
        !.completed = c,
        !.processed = IF @ = None THEN @ ELSE Some(markEndBlocks(@[1], id, text)),
        !.progress = Percent(c, st.total)]

\* An emit that takes a block_end for one more delta.
emitDeltaOnly(st, event, id, text) ==
  IF event \in {"delta", "block_end"} THEN applyDelta(st, id, text) ELSE st

\* An emit that takes every name but block_end for a delta.
emitOtherAsDelta(st, event, id, text) ==
  IF event = "block_end" THEN markEnd(st, id, text) ELSE applyDelta(st, id, text)

\* emit: dispatch on the event name; any other name is ignored.
emit(st, event, id, text) ==
  IF event = "delta" THEN applyDelta(st, id, text)
  ELSE IF event = "block_end" THEN markEnd(st, id, text)
  ELSE st

\* A read loop that hands a frame to emit whether or not its data parsed.
applyFrameNoCatch(st, f) ==
  IF f.json = "none" THEN st
  ELSE emit(st, f.event, f.id, f.text)

\* One frame of the read loop: `if (data) try { emit(event, JSON.parse(data)) }
\* catch {}`.  A frame without data, or whose data does not parse, is skipped.
applyFrame(st, f) ==
  IF f.json = "none" THEN st
  ELSE IF f.json = "bad" THEN st
  ELSE emit(st, f.event, f.id, f.text)

\* An effect that never arms the reset timer.
ProgressEffectNever(old, new, timer) == timer

\* The effect on processingProgress: reaching 100 arms the reset timer.
ProgressEffect(old, new, timer) ==
  IF new # old /\ new >= 100 /\ new # 0 THEN TRUE ELSE timer

\* ------------------------------------------------------------- notices
Toast(type, text) == [type |-> type, text |-> text]

HasToast(type) == \E i \in DOMAIN toasts : toasts[i].type = type

\* --------------------------------------------------------------- ghosts
Ended == << "#" >>

\* The delta text delivered for each block id, until its block_end.
Receive(rcv, f) ==
  IF f.json = "ok" /\ f.id \in DOMAIN rcv /\ rcv[f.id] # Ended
    THEN IF f.event = "delta" THEN [rcv EXCEPT ![f.id] = @ \o f.text]
         ELSE IF f.event = "block_end" THEN [rcv EXCEPT ![f.id] = Ended]
         ELSE rcv
    ELSE rcv

\* Whether a frame with malformed data has been skipped in this run and an
\* event of a later frame applied.
Skipped(m, f) ==
  IF f.json = "bad" THEN (IF m = "none" THEN "skipped" ELSE m)
  ELSE IF f.json = "ok" /\ f.event \in {"delta", "block_end"} /\ m = "skipped" THEN "applied"
  ELSE m

\* ------------------------------------------------- parts left at rest
\* Each specification below moves one part of the program and leaves the
\* others in the state they have before they are used.
ServerIdle ==
  /\ parallelism = 1                      \* useState(1)
  /\ parallel = 0
  /\ tasks = << >>
  /\ touched = {}

EditIdle ==
  /\ uploadPc = "idle" /\ rulePc = "idle" /\ savePc = "idle" /\ nedits = 0
  /\ uploadStart = << >> /\ ruleStart = << >>

DiffIdle ==
  /\ diffA = << >> /\ diffB = << >>
  /\ diffOut = << >> /\ diffHtml = << >>
  /\ diffPc = "idle"

ReportIdle ==
  /\ original = << >> /\ procList = << >>
  /\ changed = << >>
  /\ consumedIds = {} /\ consumedIndexes = {}
  /\ counterparts = << >>
  /\ reportPc = "idle"

ReadIdle ==
  /\ wire = << >> /\ nread = 0
  /\ streamBuffer = << >> /\ emitted = << >>
  /\ loopPc = "idle"

\* The step leaves everything but the LLM run as it is.
RunOnly == UNCHANGED << serverVars, editVars, diffVars, reportVars, readVars >>

\* ------------------------------------------------------------ the run
\* The state once a transcript has been uploaded and parsed: a document is
\* loaded, nothing has been rewritten and no task runs.
InitRun ==
  /\ \E n \in 0..NumBlocks : doc = Some(ParsedDoc(n))
  /\ processed = None
  /\ tab = "raw"
  /\ loading = FALSE
  /\ activeTask = "null"
  /\ abortControllerRef = "null"
  /\ signalAborted = FALSE
  /\ completedBlocksRef = 0
  /\ processingProgress = 0
  /\ processingResetTimer = FALSE
  /\ toasts = << >>
  /\ pc = "idle"
  /\ llmPayload = << >>
  /\ requests = << >>
  /\ streamEnd = "none"
  /\ syncEnd = "none"
  /\ received = [k \in 1..NumBlocks |-> << >>]
  /\ malformed = "none"
  /\ docAtStreamEnd = None
  /\ nframes = 0

Init == InitRun /\ ServerIdle /\ EditIdle /\ DiffIdle /\ ReportIdle /\ ReadIdle

\* const sourceDoc = processed || doc
sourceDoc == IF processed # None THEN processed[1] ELSE doc[1]

\* A base that blanks the content and keeps the processed flags.
baseKeepFlags(blocks) ==
  [blocks |-> [k \in DOMAIN blocks |-> [blocks[k] EXCEPT !.content = << >>]]]

\* processStream's base: every block of the payload, blanked.
base(blocks) ==
  [blocks |-> [k \in DOMAIN blocks |->
                 [blocks[k] EXCEPT !.content = << >>, !.processed = FALSE]]]

\* A rewrite request: the endpoint and the blocks it carries.
Request(url, blocks) == [url |-> url, blocks |-> blocks]

\* A synchronous request that sends the output document as it stands.
syncRequestCurrent(payload, current) ==
  [url |-> "/api/process", blocks |-> IF current = None THEN << >> ELSE current[1].blocks]

\* The body of the synchronous request: { ...llmPayload, mode: 'llm' }, built
\* from the payload of the run and not from the current output document.
syncRequest(payload, current) == Request("/api/process", payload)

\* A `finally` that leaves the abort controller in the ref.
SettleKeepsController ==
  /\ loading' = FALSE
  /\ activeTask' = "null"
  /\ UNCHANGED abortControllerRef
  /\ pc' = "idle"

\* The `finally` of onLLMProcess.
Settle ==
  /\ loading' = FALSE
  /\ activeTask' = "null"
  /\ abortControllerRef' = "null"
  /\ pc' = "idle"

\* An onLLMProcess behind a button that is disabled by doc and loading only:
\* it starts whenever its own guard lets it, a run in progress or not.
onLLMProcessNoTaskCheck ==
  /\ doc # None /\ ~loading               \* if (!doc || loading) return
  /\ llmPayload' = sourceDoc.blocks
  /\ toasts' = << Toast("info", "llm_start") >>
  /\ completedBlocksRef' = 0
  /\ streamEnd' = "none"
  /\ syncEnd' = "none"
  /\ received' = [k \in 1..NumBlocks |-> << >>]
  /\ malformed' = "none"
  /\ docAtStreamEnd' = None
  /\ IF Len(sourceDoc.blocks) = 0
       THEN /\ processingProgress' = 0
            /\ Settle
            /\ requests' = << >>
            /\ UNCHANGED << processed, tab, signalAborted >>
       ELSE /\ processingProgress' = 5
            /\ loading' = TRUE
            /\ activeTask' = "llm"
            /\ processed' = Some(base(sourceDoc.blocks))
            /\ tab' = "processed"
            /\ abortControllerRef' = "ctrl"
            /\ signalAborted' = FALSE
            /\ requests' = << Request("/api/process/stream", sourceDoc.blocks) >>
            /\ pc' = "fetch"
  /\ UNCHANGED << doc, processingResetTimer, nframes >>

\* onLLMProcess up to its first suspension.  With no block processStream
\* returns at once and the run settles in the same turn; otherwise the
\* output document is blanked and the streaming request is issued.
onLLMProcess ==
  /\ doc # None /\ ~loading               \* if (!doc || loading) return
  /\ activeTask = "null"                  \* the button is disabled otherwise
  /\ pc = "idle"
  /\ llmPayload' = sourceDoc.blocks
  /\ toasts' = << Toast("info", "llm_start") >>
  /\ completedBlocksRef' = 0
  /\ streamEnd' = "none"
  /\ syncEnd' = "none"
  /\ received' = [k \in 1..NumBlocks |-> << >>]
  /\ malformed' = "none"
  /\ docAtStreamEnd' = None
  /\ IF Len(sourceDoc.blocks) = 0
       THEN /\ processingProgress' = 0
            /\ Settle
            /\ requests' = << >>
            /\ UNCHANGED << processed, tab, signalAborted >>
       ELSE /\ processingProgress' = 5
            /\ loading' = TRUE
            /\ activeTask' = "llm"
            /\ processed' = Some(base(sourceDoc.blocks))
            /\ tab' = "processed"
            /\ abortControllerRef' = "ctrl"
            /\ signalAborted' = FALSE
            /\ requests' = << Request("/api/process/stream", sourceDoc.blocks) >>
            /\ pc' = "fetch"
  /\ UNCHANGED << doc, processingResetTimer, nframes >>

\* abortLLMProcess: the abort button is shown while activeTask is 'llm'.
abortLLMProcess ==
  /\ activeTask = "llm"
  /\ IF abortControllerRef # "null"
       THEN /\ signalAborted' = TRUE
            /\ abortControllerRef' = "null"
            /\ toasts' = Append(toasts, Toast("info", "aborting"))
            /\ docAtStreamEnd' = IF pc \in {"fetch", "read"} THEN processed ELSE docAtStreamEnd
       ELSE UNCHANGED << signalAborted, abortControllerRef, toasts, docAtStreamEnd >>
  /\ UNCHANGED << doc, processed, tab, loading, activeTask, completedBlocksRef,
                  processingProgress, processingResetTimer, pc, llmPayload,
                  requests, streamEnd, syncEnd, received, malformed, nframes >>

\* fetch resolves with an ok response that has a body.
FetchOk ==
  /\ pc = "fetch" /\ ~signalAborted
  /\ pc' = "read"
  /\ UNCHANGED << doc, processed, tab, loading, activeTask, abortControllerRef,
                  signalAborted, completedBlocksRef, processingProgress,
                  processingResetTimer, toasts, llmPayload, requests, streamEnd,
                  syncEnd, received, malformed, malformed, docAtStreamEnd, nframes >>

\* reader.read() resolves with a chunk that completes one frame.
ReadFrame(f) ==
  /\ pc = "read" /\ ~signalAborted
  /\ nframes < MaxFrames
  /\ nframes' = nframes + 1
  /\ LET st == applyFrame(EventState(processed, completedBlocksRef,
                                     processingProgress, Len(llmPayload)), f)
     IN /\ processed' = st.processed
        /\ completedBlocksRef' = st.completed
        /\ processingProgress' = st.progress
        /\ processingResetTimer' =
             ProgressEffect(processingProgress, st.progress, processingResetTimer)
  /\ received' = Receive(received, f)
  /\ malformed' = Skipped(malformed, f)
  /\ UNCHANGED << doc, tab, loading, activeTask, abortControllerRef, signalAborted,
                  toasts, pc, llmPayload, requests, streamEnd, syncEnd,
                  docAtStreamEnd >>

\* reader.read() resolves with done: the run is reported complete.
StreamDone ==
  /\ pc = "read" /\ ~signalAborted
  /\ processingProgress' = 100
  /\ processingResetTimer' = ProgressEffect(processingProgress, 100, processingResetTimer)
  /\ toasts' = Append(toasts, Toast("success", "stream_done"))
  /\ streamEnd' = "done"
  /\ Settle
  /\ UNCHANGED << doc, processed, tab, signalAborted, completedBlocksRef, llmPayload,
                  requests, syncEnd, received, malformed, docAtStreamEnd, nframes >>

\* A catch that takes no error for a cancellation.
isAbortNever(e) == FALSE

\* if (e.name === 'AbortError')
isAbort(e) == e = "AbortError"

\* A cancellation that blanks the output document again.
onAbortDocBlank(prev) ==
  IF prev = None THEN prev
  ELSE Some([blocks |-> [k \in DOMAIN prev[1].blocks |->
               [prev[1].blocks[k] EXCEPT !.content = << >>, !.processed = FALSE]]])

\* The output document after the catch blocks of a cancelled stream: neither
\* catch calls setProcessed.
onAbortDoc(prev) == prev

\* A failure that drops the output document.
onFailDocDrop(prev) == None

\* The output document after the catch blocks of a failed stream: neither
\* catch calls setProcessed.
onFailDoc(prev) == prev

\* fetch or reader.read() rejects: with an AbortError once the signal is
\* aborted, with another error when the transport fails.  processStream's
\* catch clears the counter and rethrows; onLLMProcess's catch either reports
\* the cancellation or falls back to the synchronous request.
StreamRejects(e) ==
  /\ pc \in {"fetch", "read"}
  /\ (e = "AbortError") <=> signalAborted
  /\ completedBlocksRef' = 0
  /\ streamEnd' = IF signalAborted THEN "aborted" ELSE "failed"
  /\ IF isAbort(e)
       THEN /\ toasts' = Append(toasts, Toast("info", "aborted"))
            /\ processingProgress' = 0
            /\ processed' = onAbortDoc(processed)
            /\ Settle
            /\ UNCHANGED << requests, docAtStreamEnd >>
       ELSE /\ processingProgress' = 5
            /\ toasts' = Append(toasts, Toast("error", "stream_failed"))
            /\ processed' = onFailDoc(processed)
            /\ requests' = Append(requests, syncRequest(llmPayload, processed))
            /\ pc' = "sync"
            /\ docAtStreamEnd' = IF signalAborted THEN docAtStreamEnd ELSE processed
            /\ UNCHANGED << loading, activeTask, abortControllerRef >>
  /\ UNCHANGED << doc, tab, signalAborted, processingResetTimer, llmPayload,
                  syncEnd, received, malformed, nframes >>

\* What the synchronous rewrite endpoint answers: every block of the request,
\* rewritten and marked processed.
syncResponse(blocks) ==
  [blocks |-> [k \in DOMAIN blocks |->
                 [blocks[k] EXCEPT !.content = <<"r">>, !.processed = TRUE]]]

\* A fallback that does not store its result.
onSyncDocKeep(prev, llmDoc) == prev

\* setProcessed(llmDoc)
onSyncDoc(prev, llmDoc) == Some(llmDoc)

\* The synchronous request resolves: the output document is replaced and the
\* preview of it is requested.
SyncOk ==
  /\ pc = "sync"
  /\ processed' = onSyncDoc(processed, syncResponse(requests[Len(requests)].blocks))
  /\ tab' = "processed"
  /\ syncEnd' = "ok"
  /\ pc' = "preview"
  /\ UNCHANGED << doc, loading, activeTask, abortControllerRef, signalAborted,
                  completedBlocksRef, processingProgress, processingResetTimer,
                  toasts, llmPayload, requests, streamEnd, received, malformed,
                  docAtStreamEnd, nframes >>

\* The synchronous request rejects: catch (llmError).
SyncFail ==
  /\ pc = "sync"
  /\ processingProgress' = 5
  /\ toasts' = Append(toasts, Toast("error", "llm_failed"))
  /\ tab' = "processed"
  /\ syncEnd' = "failed"
  /\ Settle
  /\ UNCHANGED << doc, processed, signalAborted, completedBlocksRef,
                  processingResetTimer, llmPayload, requests, streamEnd, received, malformed,
                  docAtStreamEnd, nframes >>

\* renderMarkdown resolves after the fallback: the run is reported complete.
PreviewOk ==
  /\ pc = "preview"
  /\ processingProgress' = 100
  /\ processingResetTimer' = ProgressEffect(processingProgress, 100, processingResetTimer)
  /\ toasts' = Append(toasts, Toast("success", "sync_done"))
  /\ Settle
  /\ UNCHANGED << doc, processed, tab, signalAborted, completedBlocksRef, llmPayload,
                  requests, streamEnd, syncEnd, received, malformed, docAtStreamEnd, nframes >>

\* renderMarkdown rejects after the fallback: catch (llmError).
PreviewFail ==
  /\ pc = "preview"
  /\ processingProgress' = 5
  /\ toasts' = Append(toasts, Toast("error", "llm_failed"))
  /\ Settle
  /\ UNCHANGED << doc, processed, tab, signalAborted, completedBlocksRef,
                  processingResetTimer, llmPayload, requests, streamEnd, syncEnd,
                  received, malformed, docAtStreamEnd, nframes >>

\* The timeout armed by the progress effect fires.
ProgressReset ==
  /\ processingResetTimer
  /\ completedBlocksRef' = 0
  /\ processingResetTimer' = FALSE
  /\ processingProgress' = 0
  /\ UNCHANGED << doc, processed, tab, loading, activeTask, abortControllerRef,
                  signalAborted, toasts, pc, llmPayload, requests, streamEnd,
                  syncEnd, received, malformed, malformed, docAtStreamEnd, nframes >>

Next ==
  \/ onLLMProcess /\ RunOnly
  \/ abortLLMProcess /\ RunOnly
  \/ FetchOk /\ RunOnly
  \/ \E f \in Frames : ReadFrame(f) /\ RunOnly
  \/ StreamDone /\ RunOnly
  \/ \E e \in {"AbortError", "TypeError"} : StreamRejects(e) /\ RunOnly
  \/ SyncOk /\ RunOnly
  \/ SyncFail /\ RunOnly
  \/ PreviewOk /\ RunOnly
  \/ PreviewFail /\ RunOnly
  \/ ProgressReset /\ RunOnly

Spec == Init /\ [][Next]_vars

\* ================================================================ claims
\* The blocks of the output document (none while it is null).
OutBlocks == IF processed = None THEN << >> ELSE processed[1].blocks

\* The streaming request of the run is in progress.
Streaming == pc \in {"fetch", "read"} /\ streamEnd = "none"

\* Every block that has not had its block_end holds exactly the delta text
\* delivered for its id, in the order of delivery.
HoldsReceived ==
  /\ processed # None
  /\ Len(OutBlocks) = Len(llmPayload)
  /\ \A k \in DOMAIN OutBlocks :
       received[OutBlocks[k].id] # Ended
         => OutBlocks[k].content = received[OutBlocks[k].id]

\* C1: during a streaming run, a block that has not yet had its block_end
\* holds the concatenation, in arrival order, of the text of the delta events
\* carrying its id, whatever events for other ids were applied in between.
C1_DeltaOrder == Streaming => HoldsReceived

\* Two different increments for block 1 of two have been applied: it holds
\* them in the order delivered, and block 2 holds nothing.
C1_Witness ==
  /\ Streaming
  /\ Len(OutBlocks) = 2
  /\ received[1] = <<"a", "b">>
  /\ OutBlocks[1].content = <<"a", "b">>
  /\ OutBlocks[2].content = << >>

\* What a block_end event for f.id does to the output document.
BlockEndEffect(f) ==
  /\ processed # None /\ processed' # None
  /\ DOMAIN processed'[1].blocks = DOMAIN processed[1].blocks
  /\ \A k \in DOMAIN processed[1].blocks :
       LET old == processed[1].blocks[k]
           new == processed'[1].blocks[k]
       IN IF old.id = f.id
            THEN /\ new.processed = TRUE
                 /\ new.content = (IF f.text # << >> THEN f.text ELSE old.content)
                 /\ new.id = old.id
                 /\ new.speaker = old.speaker
                 /\ new.timestamp = old.timestamp
            ELSE new = old

\* C2: applying a block_end event for id X marks X processed, sets X's content
\* to the event's text when that text is non-empty and keeps the accumulated
\* content when it is empty, and leaves every other block unchanged.
C2_BlockEnd ==
  [][\A f \in Frames :
       (f.json = "ok" /\ f.event = "block_end" /\ ReadFrame(f)) => BlockEndEffect(f)]_vars

\* A block_end has been applied to block 1 of two: it is processed and holds
\* text, block 2 is untouched.
C2_Witness ==
  /\ pc = "read"
  /\ Len(OutBlocks) = 2
  /\ received[1] = Ended
  /\ OutBlocks[1].processed /\ OutBlocks[1].content = <<"a">>
  /\ ~OutBlocks[2].processed /\ OutBlocks[2].content = << >>
  /\ nframes = 2

\* C3: during a single run the completed counter never decreases and never
\* exceeds the number of blocks of the run.
C3_MonotonicProgress ==
  [][(activeTask = "llm" /\ activeTask' = "llm")
       => /\ completedBlocksRef' >= completedBlocksRef
          /\ completedBlocksRef' <= Len(llmPayload')]_vars

\* C4: once the user has cancelled during a run, the run is not reported as a
\* success, the output document is not replaced, and the run ends reported as
\* cancelled.
C4_CancelNeverSuccess ==
  /\ [](signalAborted
         => /\ ~HasToast("success")
            /\ (pc = "idle" => toasts[Len(toasts)] = Toast("info", "aborted")))
  /\ [][(signalAborted /\ activeTask = "llm") => processed' = processed]_vars

SyncRequests == { i \in DOMAIN requests : requests[i].url = "/api/process" }

\* C5: a stream ended by the user's cancellation is followed by no further
\* request and is reported by an informational notice, never an error; the
\* synchronous fallback is requested only after a stream failure that is not
\* a cancellation.
C5_CancelIsNotFailure ==
  /\ streamEnd = "aborted"
       => /\ Len(requests) = 1 /\ SyncRequests = {}
          /\ pc = "idle"
          /\ ~HasToast("error") /\ ~HasToast("success")
          /\ toasts[Len(toasts)] = Toast("info", "aborted")
  /\ SyncRequests # {} => streamEnd = "failed"

\* A run cancelled after part of block 1 had been streamed.
C5_Witness ==
  /\ streamEnd = "aborted"
  /\ pc = "idle"
  /\ received[1] = <<"a">>

\* The user has cancelled and the stream did not fail before that.
Cancelled == signalAborted /\ streamEnd \in {"none", "aborted"}

\* C6: a cancelled run leaves every block of the output document with the
\* content and processed flag it had when the cancellation was signalled.
C6_CancelKeepsBlocks == Cancelled => processed = docAtStreamEnd

\* A run cancelled with block 1 ended and block 2 partly streamed.
C6_Witness ==
  /\ streamEnd = "aborted" /\ pc = "idle"
  /\ Len(OutBlocks) = 2
  /\ OutBlocks[1].processed
  /\ OutBlocks[2].content = <<"a">> /\ ~OutBlocks[2].processed

\* C7: after a stream failure that is not a cancellation exactly one
\* synchronous request has been issued, carrying the blocks of the run's source
\* document as they were submitted to the stream, and once it has succeeded
\* the output document is the response.
C7_FallbackRequest ==
  /\ streamEnd = "failed"
       => /\ Cardinality(SyncRequests) = 1
          /\ requests = << Request("/api/process/stream", llmPayload),
                           Request("/api/process", llmPayload) >>
  /\ syncEnd = "ok" => processed = Some(syncResponse(llmPayload))

\* The stream failed with block 1 partly streamed, and the fallback succeeded.
PartialThenFallback ==
  /\ streamEnd = "failed" /\ syncEnd = "ok"
  /\ docAtStreamEnd # None
  /\ docAtStreamEnd[1].blocks[1].content = <<"a">>
  /\ ~docAtStreamEnd[1].blocks[1].processed

C7_Witness == PartialThenFallback /\ pc = "preview" /\ Len(llmPayload) = 2

C9_BothFailKeepPartial ==
  (streamEnd = "failed" /\ syncEnd = "failed")
     => /\ pc = "idle"
        /\ toasts[Len(toasts)].type = "error"
        /\ processed # None
        /\ processed = docAtStreamEnd

\* Both requests failed after block 1 had been partly streamed.
C9_Witness ==
  /\ streamEnd = "failed" /\ syncEnd = "failed"
  /\ Len(OutBlocks) = 2
  /\ OutBlocks[1].content = <<"a">>
  /\ received[1] = <<"a">>

\* C10: a frame whose data is not valid JSON changes neither the output
\* document nor the progress counter and leaves the run reading; the events
\* of the frames after it are applied as usual.
C10_MalformedSkipped ==
  /\ [][\A f \in Frames :
          (f.json = "bad" /\ ReadFrame(f))
            => /\ processed' = processed
               /\ completedBlocksRef' = completedBlocksRef
               /\ processingProgress' = processingProgress
               /\ processingResetTimer' = processingResetTimer
               /\ pc' = "read" /\ streamEnd' = "none"]_vars
  /\ []((Streaming /\ malformed # "none") => HoldsReceived)

\* A malformed frame was skipped and the delta after it applied.
C10_Witness ==
  /\ Streaming
  /\ malformed = "applied"
  /\ nframes = 2
  /\ received[1] = <<"a">>
  /\ OutBlocks[1].content = <<"a">>

\* ==================================================== the rewrite service
\* The streaming endpoint is served by the back end, which admits the blocks
\* of a request under the request's `parallel` value.  The front end forwards
\* that value and applies the events it is sent.

\* useState(128) for parallelMax and useState('') for selectedProvider: the
\* provider catalogue is not loaded in this model.
parallelMax == 128
selectedProvider == ""

\* let safeParallelism = parallelism; lowered to min(5, parallelMax) for OpenAI.
safeParallelism(p, provider, max) ==
  IF provider = "openai" /\ p > Min(5, max) THEN Min(5, max) ELSE p

\* The tasks of ts that wait, and those that stream.
QueuedTasks(ts) == { i \in DOMAIN ts : ts[i] = "Queued" }
StreamingTasks(ts) == { i \in DOMAIN ts : ts[i] = "Streaming" }

\* Admission: queued tasks start in document order while fewer than k stream.
admit(ts, k) ==
  [i \in DOMAIN ts |->
     IF /\ ts[i] = "Queued"
        /\ Cardinality({ j \in QueuedTasks(ts) : j < i }) + Cardinality(StreamingTasks(ts)) < k
       THEN "Streaming" ELSE ts[i]]

\* The ids an event of the run has been applied to: a delta or block_end that
\* parsed and names a block of the output document.
Touch(t, f, blocks) ==
  IF /\ f.json = "ok" /\ f.event \in {"delta", "block_end"}
     /\ \E i \in DOMAIN blocks : blocks[i].id = f.id
    THEN t \cup {f.id} ELSE t

InitServer ==
  /\ InitRun
  /\ parallelism \in 1..(NumBlocks - 1)   \* the slider, kept below the largest document
  /\ parallel = 0 /\ tasks = << >> /\ touched = {}
  /\ EditIdle /\ DiffIdle /\ ReportIdle /\ ReadIdle

ServerRest == UNCHANGED << editVars, diffVars, reportVars, readVars >>

\* onLLMProcess: the request carries parallel: safeParallelism.
onLLMProcessParallel ==
  /\ onLLMProcess
  /\ parallel' = safeParallelism(parallelism, selectedProvider, parallelMax)
  /\ tasks' = << >>
  /\ touched' = {}
  /\ UNCHANGED parallelism

\* The service accepts the request: one task per block, the first `parallel`
\* of them admitted.
ServerAccepts ==
  /\ FetchOk
  /\ tasks' = admit([i \in DOMAIN llmPayload |-> "Queued"], parallel)
  /\ UNCHANGED << parallelism, parallel, touched >>

\* The service sends an event of a streaming task; a block_end completes the
\* task and admits the next queued one.
ServerSends(i, f) ==
  /\ i \in StreamingTasks(tasks)
  /\ f.json = "ok" /\ f.event \in {"delta", "block_end"}
  /\ f.id = llmPayload[i].id
  /\ f.text \in { << >>, <<"a">> }
  /\ ReadFrame(f)
  /\ tasks' = IF f.event = "block_end"
                THEN admit([tasks EXCEPT ![i] = "Completed"], parallel)
                ELSE tasks
  /\ touched' = Touch(touched, f, OutBlocksOf(processed))
  /\ UNCHANGED << parallelism, parallel >>

NextServer ==
  \/ onLLMProcessParallel /\ ServerRest
  \/ abortLLMProcess /\ RunOnly
  \/ ServerAccepts /\ ServerRest
  \/ \E i \in 1..NumBlocks, f \in Frames : ServerSends(i, f) /\ ServerRest
  \/ StreamDone /\ RunOnly
  \/ \E e \in {"AbortError", "TypeError"} : StreamRejects(e) /\ RunOnly
  \/ SyncOk /\ RunOnly
  \/ SyncFail /\ RunOnly
  \/ PreviewOk /\ RunOnly
  \/ PreviewFail /\ RunOnly
  \/ ProgressReset /\ RunOnly

SpecServer == InitServer /\ [][NextServer]_vars

\* C11: for a request of N blocks with parallel = k < N, at most k blocks of
\* the output document are streaming at any instant, a block streaming from
\* the first event applied to it until its block_end marks it processed.
StreamingBlocks ==
  { i \in DOMAIN OutBlocks : OutBlocks[i].id \in touched /\ ~OutBlocks[i].processed }

EditOnly == UNCHANGED << serverVars, diffVars, reportVars, readVars >>

\* onUpload up to `await axios.post('/api/upload')`.  The file input is never
\* disabled and the handler has no guard on loading or activeTask.
onUpload ==
  /\ uploadPc = "idle" /\ nedits < MaxEdits
  /\ loading' = TRUE
  /\ uploadPc' = "post"
  /\ uploadStart' = << doc, processed >>
  /\ nedits' = nedits + 1
  /\ UNCHANGED << doc, processed, tab, activeTask, abortControllerRef, signalAborted,
                  completedBlocksRef, processingProgress, processingResetTimer, toasts,
                  pc, llmPayload, requests, streamEnd, syncEnd, received, malformed,
                  docAtStreamEnd, nframes, rulePc, savePc, ruleStart >>

\* The `finally` of onUpload.
UploadSettle == loading' = FALSE /\ uploadPc' = "idle" /\ uploadStart' = << >>

\* The upload resolves with a parsed document of n blocks: setDoc(res.data),
\* setProcessed(null), setTab('raw'), then the preview is requested.
UploadOk(n) ==
  /\ uploadPc = "post"
  /\ doc' = Some(ParsedDoc(n))
  /\ processed' = None
  /\ tab' = "raw"
  /\ uploadPc' = "preview"
  /\ UNCHANGED << loading, activeTask, abortControllerRef, signalAborted,
                  completedBlocksRef, processingProgress, processingResetTimer, toasts,
                  pc, llmPayload, requests, streamEnd, syncEnd, received, malformed,
                  docAtStreamEnd, nframes, rulePc, savePc, nedits, uploadStart, ruleStart >>

\* The upload or its preview rejects: catch, then finally.
UploadFail ==
  /\ uploadPc \in {"post", "preview"}
  /\ toasts' = Append(toasts, Toast("error", "upload_failed"))
  /\ UploadSettle
  /\ UNCHANGED << doc, processed, tab, activeTask, abortControllerRef, signalAborted,
                  completedBlocksRef, processingProgress, processingResetTimer,
                  pc, llmPayload, requests, streamEnd, syncEnd, received, malformed,
                  docAtStreamEnd, nframes, rulePc, savePc, nedits, ruleStart >>

\* renderMarkdown resolves after the upload.
UploadPreviewOk ==
  /\ uploadPc = "preview"
  /\ toasts' = Append(toasts, Toast("success", "upload_done"))
  /\ UploadSettle
  /\ UNCHANGED << doc, processed, tab, activeTask, abortControllerRef, signalAborted,
                  completedBlocksRef, processingProgress, processingResetTimer,
                  pc, llmPayload, requests, streamEnd, syncEnd, received, malformed,
                  docAtStreamEnd, nframes, rulePc, savePc, nedits, ruleStart >>

\* onProcess up to `await axios.post('/api/process', { mode: 'rule' })`.
onProcess ==
  /\ doc # None /\ ~loading               \* if (!doc || loading) return
  /\ activeTask = "null"                  \* the button is disabled otherwise
  /\ rulePc = "idle" /\ nedits < MaxEdits
  /\ loading' = TRUE
  /\ activeTask' = "rule"
  /\ rulePc' = "post"
  /\ ruleStart' = << doc, processed >>
  /\ nedits' = nedits + 1
  /\ UNCHANGED << doc, processed, tab, abortControllerRef, signalAborted,
                  completedBlocksRef, processingProgress, processingResetTimer, toasts,
                  pc, llmPayload, requests, streamEnd, syncEnd, received, malformed,
                  docAtStreamEnd, nframes, uploadPc, savePc, uploadStart >>

\* The `finally` of onProcess.
RuleSettle ==
  loading' = FALSE /\ activeTask' = "null" /\ rulePc' = "idle" /\ ruleStart' = << >>

\* What the rule endpoint answers: the blocks of the request, normalised.
ruleResponse(n) == [blocks |-> [k \in 1..n |-> Block(k, <<"n">>, FALSE)]]

\* The rule request resolves: setProcessed(rule.data), setTab('processed').
RuleOk(n) ==
  /\ rulePc = "post"
  /\ processed' = Some(ruleResponse(n))
  /\ tab' = "processed"
  /\ rulePc' = "preview"
  /\ UNCHANGED << doc, loading, activeTask, abortControllerRef, signalAborted,
                  completedBlocksRef, processingProgress, processingResetTimer, toasts,
                  pc, llmPayload, requests, streamEnd, syncEnd, received, malformed,
                  docAtStreamEnd, nframes, uploadPc, savePc, nedits, uploadStart, ruleStart >>

\* The rule request or its preview rejects: catch, then finally.
RuleFail ==
  /\ rulePc \in {"post", "preview"}
  /\ toasts' = Append(toasts, Toast("error", "rule_failed"))
  /\ RuleSettle
  /\ UNCHANGED << doc, processed, tab, abortControllerRef, signalAborted,
                  completedBlocksRef, processingProgress, processingResetTimer,
                  pc, llmPayload, requests, streamEnd, syncEnd, received, malformed,
                  docAtStreamEnd, nframes, uploadPc, savePc, nedits, uploadStart >>

\* renderMarkdown resolves after the rule request.
RulePreviewOk ==
  /\ rulePc = "preview"
  /\ toasts' = Append(toasts, Toast("success", "rule_done"))
  /\ RuleSettle
  /\ UNCHANGED << doc, processed, tab, abortControllerRef, signalAborted,
                  completedBlocksRef, processingProgress, processingResetTimer,
                  pc, llmPayload, requests, streamEnd, syncEnd, received, malformed,
                  docAtStreamEnd, nframes, uploadPc, savePc, nedits, uploadStart >>

\* saveBlock's curr: the document of the shown tab; on the processed tab an
\* empty or missing output document is replaced by a copy of doc.
saveCurr ==
  IF tab = "processed"
    THEN IF Len(OutBlocksOf(processed)) > 0 THEN processed[1] ELSE doc[1]
    ELSE IF doc # None THEN doc[1] ELSE [blocks |-> << >>]

\* newBlocks: the block carrying id gets the draft text and processed: true.
saveNewDoc(curr, id, text) ==
  [blocks |-> [k \in DOMAIN curr.blocks |->
     IF curr.blocks[k].id = id
       THEN [curr.blocks[k] EXCEPT !.content = text, !.processed = TRUE]
       ELSE curr.blocks[k]]]

\* saveBlock(id) with drafts[id] = text, up to `await renderMarkdown`: a block
\* shown in the preview is edited and loses focus.  Editing has no guard on
\* loading or activeTask.
saveBlock(id, text) ==
  /\ savePc = "idle" /\ nedits < MaxEdits
  /\ doc # None
  /\ \E k \in DOMAIN saveCurr.blocks : saveCurr.blocks[k].id = id
  /\ IF tab = "processed"
       THEN processed' = Some(saveNewDoc(saveCurr, id, text)) /\ UNCHANGED doc
       ELSE doc' = Some(saveNewDoc(saveCurr, id, text)) /\ UNCHANGED processed
  /\ savePc' = "preview"
  /\ nedits' = nedits + 1
  /\ UNCHANGED << tab, loading, activeTask, abortControllerRef, signalAborted,
                  completedBlocksRef, processingProgress, processingResetTimer, toasts,
                  pc, llmPayload, requests, streamEnd, syncEnd, received, malformed,
                  docAtStreamEnd, nframes, uploadPc, rulePc, uploadStart, ruleStart >>

\* renderMarkdown settles after a save: the saved notice when it resolves.
SaveSettles(ok) ==
  /\ savePc = "preview"
  /\ toasts' = IF ok THEN Append(toasts, Toast("success", "saved")) ELSE toasts
  /\ savePc' = "idle"
  /\ UNCHANGED << doc, processed, tab, loading, activeTask, abortControllerRef,
                  signalAborted, completedBlocksRef, processingProgress,
                  processingResetTimer, pc, llmPayload, requests, streamEnd, syncEnd,
                  received, malformed, docAtStreamEnd, nframes, uploadPc, rulePc, nedits, uploadStart, ruleStart >>

\* The stream of this specification sends one kind of delta and block_end;
\* what a stream may carry is the subject of Spec.
AppFrames ==
  { f \in Frames : f.json = "ok" /\ f.event \in {"delta", "block_end"}
                    /\ f.id = 1 /\ f.text = <<"a">> }

NextApp ==
  \/ onLLMProcess /\ RunOnly
  \/ abortLLMProcess /\ RunOnly
  \/ FetchOk /\ RunOnly
  \/ \E f \in AppFrames : ReadFrame(f) /\ RunOnly
  \/ StreamDone /\ RunOnly
  \/ \E e \in {"AbortError", "TypeError"} : StreamRejects(e) /\ RunOnly
  \/ SyncOk /\ RunOnly
  \/ SyncFail /\ RunOnly
  \/ PreviewOk /\ RunOnly
  \/ PreviewFail /\ RunOnly
  \/ ProgressReset /\ RunOnly
  \/ onUpload /\ EditOnly
  \/ \E n \in 0..NumBlocks : UploadOk(n) /\ EditOnly
  \/ UploadFail /\ EditOnly
  \/ UploadPreviewOk /\ EditOnly
  \/ onProcess /\ EditOnly
  \/ \E n \in 0..NumBlocks : RuleOk(n) /\ EditOnly
  \/ RuleFail /\ EditOnly
  \/ RulePreviewOk /\ EditOnly
  \/ \E id \in 1..NumBlocks, text \in Texts : saveBlock(id, text) /\ EditOnly
  \/ \E ok \in BOOLEAN : SaveSettles(ok) /\ EditOnly

SpecApp == Init /\ [][NextApp]_vars

\* C12: while an LLM run is active no upload, rule result or block save
\* replaces or edits the output document.
C12_SingleWriter ==
  [][(/\ activeTask = "llm"
      /\ \/ \E n \in 0..NumBlocks : UploadOk(n)
         \/ \E n \in 0..NumBlocks : RuleOk(n)
         \/ \E id \in 1..NumBlocks, text \in Texts : saveBlock(id, text))
     => processed' = processed]_vars

\* ============================================================ utils/diff.ts
\* A string is a sequence of code points; a code point outside ASCII is
\* written by its number: "U4F60" and "U597D" are the ideographs of the
\* greeting ni hao.

\* The code points the inputs are drawn from: a Latin letter, a space and two
\* punctuation marks that HTML reserves.  Ideographs, which tokenize treats as
\* it treats punctuation, come with the example text below.
Chars == { "w", " ", "<", "&" }

\* const whitespaceTest = /\s/
whitespaceTest(ch) == ch \in { " ", "\t", "\n", "\r" }

\* const chineseChar = /[\u4E00-\u9FFF]/
chineseChar(ch) == ch \in { "U4F60", "U597D" }

\* const asciiPunctuation: the ASCII marks from ! to /, from : to @, from [
\* to the grave accent and from { to ~ (the quotes, the backslash and the
\* grave accent, which no input of this model holds, are left out).
asciiPunctuation(ch) ==
  ch \in { "!", "#", "$", "%", "&", "(", ")", "*", "+", ",", "-", ".", "/",
           ":", ";", "<", "=", ">", "?", "@", "[", "]", "^", "_",
           "{", "|", "}", "~" }

\* const fullWidthPunctuation = /[\u3000-\u303F\uFF00-\uFF65]/
fullWidthPunctuation(ch) == ch \in { "U3002", "UFF0C" }

isPunctuation(ch) == asciiPunctuation(ch) \/ fullWidthPunctuation(ch)

\* s.replace(/x/g, rep) for a one-character pattern x.
RECURSIVE replaceAll(_, _, _)
replaceAll(s, x, rep) ==
  IF s = << >> THEN << >>
  ELSE (IF Head(s) = x THEN rep ELSE << Head(s) >>) \o replaceAll(Tail(s), x, rep)

\* An escape that replaces & after < and >.
escapeHtmlAmpLast(s) ==
  replaceAll(replaceAll(replaceAll(s, "<", <<"&", "l", "t", ";">>),
                        ">", <<"&", "g", "t", ";">>),
             "&", <<"&", "a", "m", "p", ";">>)

\* escapeHtml: & first, then < and >.
escapeHtml(s) ==
  replaceAll(replaceAll(replaceAll(s, "&", <<"&", "a", "m", "p", ";">>),
                        "<", <<"&", "l", "t", ";">>),
             ">", <<"&", "g", "t", ";">>)

\* A pushBuffer that drops the buffer.
pushBufferNever(tokens, buffer) == tokens

\* pushBuffer
pushBuffer(tokens, buffer) == IF buffer # << >> THEN Append(tokens, buffer) ELSE tokens

\* One turn of a tokenize loop that does not close the buffer at a
\* punctuation mark or an ideograph.
tokenizeCharGlue(st, ch) ==
  IF whitespaceTest(ch)
    THEN LET t == pushBuffer(st.tokens, st.buffer)
         IN IF Len(t) > 0 /\ whitespaceTest(t[Len(t)][Len(t[Len(t)])])
              THEN [tokens |-> [t EXCEPT ![Len(t)] = @ \o << ch >>], buffer |-> << >>]
              ELSE [tokens |-> Append(t, << ch >>), buffer |-> << >>]
    ELSE [st EXCEPT !.buffer = @ \o << ch >>]

\* One turn of a tokenize loop that starts a token at every whitespace
\* character.
tokenizeCharNoMerge(st, ch) ==
  IF whitespaceTest(ch)
    THEN [tokens |-> Append(pushBuffer(st.tokens, st.buffer), << ch >>), buffer |-> << >>]
    ELSE IF chineseChar(ch) \/ isPunctuation(ch)
      THEN [tokens |-> Append(pushBuffer(st.tokens, st.buffer), << ch >>), buffer |-> << >>]
      ELSE [st EXCEPT !.buffer = @ \o << ch >>]

\* One turn of tokenize's loop, on the character ch.
tokenizeChar(st, ch) ==
  IF whitespaceTest(ch)
    THEN LET t == pushBuffer(st.tokens, st.buffer)
         IN IF Len(t) > 0 /\ whitespaceTest(t[Len(t)][Len(t[Len(t)])])
              THEN [tokens |-> [t EXCEPT ![Len(t)] = @ \o << ch >>], buffer |-> << >>]
              ELSE [tokens |-> Append(t, << ch >>), buffer |-> << >>]
    ELSE IF chineseChar(ch) \/ isPunctuation(ch)
      THEN [tokens |-> Append(pushBuffer(st.tokens, st.buffer), << ch >>), buffer |-> << >>]
      ELSE [st EXCEPT !.buffer = @ \o << ch >>]

\* for (const ch of input) ...
RECURSIVE tokenizeLoop(_, _)
tokenizeLoop(st, input) ==
  IF input = << >> THEN st ELSE tokenizeLoop(tokenizeChar(st, Head(input)), Tail(input))

\* tokenize: the loop, then the last pushBuffer.
tokenize(input) ==
  LET st == tokenizeLoop([tokens |-> << >>, buffer |-> << >>], input)
  IN pushBuffer(st.tokens, st.buffer)

Max(a, b) == IF a > b THEN a ELSE b

\* A cell of a matrix that takes the smaller of the two continuations.
RECURSIVE lcsCellMin(_, _, _, _)
lcsCellMin(a, b, i, j) ==
  IF i >= Len(a) \/ j >= Len(b) THEN 0
  ELSE IF a[i + 1] = b[j + 1] THEN lcsCellMin(a, b, i + 1, j + 1) + 1
  ELSE Min(lcsCellMin(a, b, i + 1, j), lcsCellMin(a, b, i, j + 1))

\* dp[i][j] of lcsMatrix, indices counted from 0 as in the code:
\* a[i] === b[j] ? dp[i+1][j+1] + 1 : Math.max(dp[i+1][j], dp[i][j+1]).
RECURSIVE lcsCell(_, _, _, _)
lcsCell(a, b, i, j) ==
  IF i >= Len(a) \/ j >= Len(b) THEN 0
  ELSE IF a[i + 1] = b[j + 1] THEN lcsCell(a, b, i + 1, j + 1) + 1
  ELSE Max(lcsCell(a, b, i + 1, j), lcsCell(a, b, i, j + 1))

\* lcsMatrix: the whole table.
lcsMatrix(a, b) == [i \in 0..Len(a) |-> [j \in 0..Len(b) |-> lcsCell(a, b, i, j)]]

\* The markup around a deleted and around an inserted token; each tag is one
\* element of the output string.
DelOpen == "<span class=\"diff-del\">"
InsOpen == "<span class=\"diff-ins\">"
SpanClose == "</span>"

\* What diffToHtml pushes on out: a token and how it is marked.
Segment(kind, token) == [kind |-> kind, token |-> token]

\* A rendering that wraps an inserted token in the span of a deleted one.
segmentHtmlDelOnly(seg) ==
  IF seg.kind = "same" THEN escapeHtml(seg.token)
  ELSE << DelOpen >> \o escapeHtml(seg.token) \o << SpanClose >>

\* The string pushed for a segment.
segmentHtml(seg) ==
  IF seg.kind = "same" THEN escapeHtml(seg.token)
  ELSE IF seg.kind = "del" THEN << DelOpen >> \o escapeHtml(seg.token) \o << SpanClose >>
  ELSE << InsOpen >> \o escapeHtml(seg.token) \o << SpanClose >>

\* out.join('')
RECURSIVE join(_)
join(out) == IF out = << >> THEN << >> ELSE segmentHtml(Head(out)) \o join(Tail(out))

\* A tie-break that deletes only when deleting is strictly better.
deleteFirstStrict(dp, i, j) == dp[i + 1][j] > dp[i][j + 1]

\* if (dp[i + 1][j] >= dp[i][j + 1]): delete, else insert.
deleteFirst(dp, i, j) == dp[i + 1][j] >= dp[i][j + 1]

\* A reconstruction that stops when either sequence is exhausted.
RECURSIVE reconstructNoDrain(_, _, _, _, _, _)
reconstructNoDrain(at, bt, dp, i, j, out) ==
  IF i < Len(at) /\ j < Len(bt)
    THEN IF at[i + 1] = bt[j + 1]
           THEN reconstructNoDrain(at, bt, dp, i + 1, j + 1, Append(out, Segment("same", at[i + 1])))
           ELSE IF deleteFirst(dp, i, j)
             THEN reconstructNoDrain(at, bt, dp, i + 1, j, Append(out, Segment("del", at[i + 1])))
             ELSE reconstructNoDrain(at, bt, dp, i, j + 1, Append(out, Segment("ins", bt[j + 1])))
    ELSE out

\* The three loops of the reconstruction, from positions i and j on.
RECURSIVE reconstruct(_, _, _, _, _, _)
reconstruct(at, bt, dp, i, j, out) ==
  IF i < Len(at) /\ j < Len(bt)
    THEN IF at[i + 1] = bt[j + 1]
           THEN reconstruct(at, bt, dp, i + 1, j + 1, Append(out, Segment("same", at[i + 1])))
           ELSE IF deleteFirst(dp, i, j)
             THEN reconstruct(at, bt, dp, i + 1, j, Append(out, Segment("del", at[i + 1])))
             ELSE reconstruct(at, bt, dp, i, j + 1, Append(out, Segment("ins", bt[j + 1])))
    ELSE IF i < Len(at)
      THEN reconstruct(at, bt, dp, i + 1, j, Append(out, Segment("del", at[i + 1])))
      ELSE IF j < Len(bt)
        THEN reconstruct(at, bt, dp, i, j + 1, Append(out, Segment("ins", bt[j + 1])))
        ELSE out

\* The fast path without the escape.
diffEqualRaw(a) == a

\* if (a === b) return escapeHtml(a)
diffEqual(a) == escapeHtml(a)

\* diffToHtml: out as pushed (nothing is pushed on the fast path) and the
\* string returned.
diffToHtml(a, b) ==
  IF a = b THEN [out |-> << >>, html |-> diffEqual(a)]
  ELSE LET at == tokenize(a)
           bt == tokenize(b)
           out == reconstruct(at, bt, lcsMatrix(at, bt), 0, 0, << >>)
       IN [out |-> out, html |-> join(out)]

\* All strings over Chars of at most n characters.
RECURSIVE StringsUpTo(_)
StringsUpTo(n) ==
  IF n = 0 THEN { << >> }
  ELSE LET shorter == StringsUpTo(n - 1)
       IN shorter \cup { Append(s, c) : s \in shorter, c \in Chars }

\* The mixed text of the tokenizer example: two ideographs, a space, a Latin
\* word and an exclamation mark.
ExampleText == << "U4F60", "U597D", " ", "w", "o", "r", "l", "d", "!" >>

\* A text with the three characters escapeHtml rewrites.
MarkupText == << "w", ">", "&", "<" >>

DiffOnly == UNCHANGED << runVars, serverVars, editVars, reportVars, readVars >>

\* The arguments of a call: any two strings within the bounds, or the example.
InitDiff ==
  /\ InitRun /\ doc = Some(ParsedDoc(0))
  /\ ServerIdle /\ EditIdle /\ ReportIdle /\ ReadIdle
  /\ diffA \in StringsUpTo(MaxLenA) \cup { ExampleText, MarkupText }
  /\ diffB \in StringsUpTo(MaxLenB)
  /\ diffOut = << >> /\ diffHtml = << >>
  /\ diffPc = "input"

\* The call diffToHtml(diffA, diffB).
CallDiffToHtml ==
  /\ diffPc = "input"
  /\ LET r == diffToHtml(diffA, diffB)
     IN diffOut' = r.out /\ diffHtml' = r.html
  /\ diffPc' = "done"
  /\ UNCHANGED << diffA, diffB >>

NextDiff == CallDiffToHtml /\ DiffOnly

SpecDiff == InitDiff /\ [][NextDiff]_vars

\* ------------------------------------------------------ claims on the diff
DiffDone == diffPc = "done"

\* The segments of out of the given kind.
SegmentsOf(out, kind) == { n \in DOMAIN out : out[n].kind = kind }

RangeOf(s) == { s[n] : n \in DOMAIN s }

\* C13: diffToHtml(a, a) is escapeHtml(a) for every a, the empty string
\* included, and holds no deleted and no inserted segment.
C13_DiffOfEqual ==
  (DiffDone /\ diffA = diffB) =>
     /\ diffHtml = escapeHtml(diffA)
     /\ RangeOf(diffHtml) \cap { DelOpen, InsOpen, SpanClose, "<", ">" } = {}
     /\ diffOut = << >>

\* Equal arguments that hold a character escapeHtml rewrites.
C13_Witness ==
  /\ DiffDone /\ diffA = diffB
  /\ "<" \in RangeOf(diffA) /\ "&" \in RangeOf(diffA)

\* b = a + suffix
IsPrefix(a, b) == Len(a) <= Len(b) /\ SubSeq(b, 1, Len(a)) = a
SuffixAfter(a, b) == SubSeq(b, Len(a) + 1, Len(b))

\* Every token wrapped as inserted, one after the other.
RECURSIVE allInserted(_)
allInserted(tokens) ==
  IF tokens = << >> THEN << >>
  ELSE << InsOpen >> \o escapeHtml(Head(tokens)) \o << SpanClose >>
       \o allInserted(Tail(tokens))

\* a unchanged, then the tokens of the suffix inserted.
AppendOnlyHtml(a, suffix) == escapeHtml(a) \o allInserted(tokenize(suffix))

TokenBoundary(a, b) == tokenize(b) = tokenize(a) \o tokenize(SuffixAfter(a, b))

IsSingle(ch) == chineseChar(ch) \/ isPunctuation(ch)
IsRun(token) ==
  token # << >> /\ \A n \in DOMAIN token : ~IsSingle(token[n]) /\ ~whitespaceTest(token[n])

\* How many elements of s satisfy the test given as a set.
CountIn(s, set) == Cardinality({ n \in DOMAIN s : s[n] \in set })

TokenizerRules(s) ==
  LET t == tokenize(s)
  IN /\ \A n \in DOMAIN t :
          /\ Len(t[n]) > 1 => \A m \in DOMAIN t[n] : ~IsSingle(t[n][m])
          /\ (\E m \in DOMAIN t[n] : ~IsSingle(t[n][m]) /\ ~whitespaceTest(t[n][m]))
               => IsRun(t[n])
     /\ Cardinality({ n \in DOMAIN t : Len(t[n]) = 1 /\ IsSingle(t[n][1]) })
          = Cardinality({ m \in DOMAIN s : IsSingle(s[m]) })
     /\ \A n \in DOMAIN t : n > 1 => ~(IsRun(t[n - 1]) /\ IsRun(t[n]))

\* C15: tokenize makes each ideograph and each punctuation mark a token of
\* its own and each maximal run of other non-whitespace characters one token;
\* the example text yields its five tokens.
C15_Tokenizer ==
  /\ TokenizerRules(diffA) /\ TokenizerRules(diffB)
  /\ diffA = ExampleText =>
       tokenize(diffA) = << <<"U4F60">>, <<"U597D">>, <<" ">>,
                            <<"w", "o", "r", "l", "d">>, <<"!">> >>

\* The example has been tokenized by a call.
C15_Witness ==
  /\ DiffDone /\ diffA = ExampleText
  /\ Len(tokenize(diffA)) = 5
  /\ diffB = << "w", "w", "<" >> /\ Len(tokenize(diffB)) = 2

\* The positions i and j of the reconstruction before it pushed out[n].
PosA(out, n) == Cardinality({ m \in 1..(n - 1) : out[m].kind \in {"same", "del"} })
PosB(out, n) == Cardinality({ m \in 1..(n - 1) : out[m].kind \in {"same", "ins"} })

\* out[n] was pushed at a mismatch: both sequences had a token left and the
\* two differed.
AtMismatch(at, bt, out, n) ==
  /\ PosA(out, n) < Len(at) /\ PosB(out, n) < Len(bt)
  /\ at[PosA(out, n) + 1] # bt[PosB(out, n) + 1]

\* C16: at a mismatch with dp[i+1][j] = dp[i][j+1] the token of a is pushed
\* as deleted, and a token of b is pushed as inserted at a mismatch only when
\* dp[i][j+1] > dp[i+1][j].
C16_TieBreak ==
  (DiffDone /\ diffA # diffB) =>
     LET at == tokenize(diffA)
         bt == tokenize(diffB)
         dp == lcsMatrix(at, bt)
     IN \A n \in DOMAIN diffOut :
          AtMismatch(at, bt, diffOut, n) =>
            LET i == PosA(diffOut, n)
                j == PosB(diffOut, n)
            IN /\ dp[i + 1][j] = dp[i][j + 1] => diffOut[n].kind = "del"
               /\ diffOut[n].kind = "ins" => dp[i][j + 1] > dp[i + 1][j]
               /\ diffOut[n].kind = "del" => diffOut[n].token = at[i + 1]

\* A tie at a mismatch, resolved by a deletion that an insertion follows.
C16_Witness ==
  /\ DiffDone /\ diffA # diffB
  /\ LET at == tokenize(diffA)
         bt == tokenize(diffB)
         dp == lcsMatrix(at, bt)
     IN \E n \in DOMAIN diffOut :
          /\ AtMismatch(at, bt, diffOut, n)
          /\ dp[PosA(diffOut, n) + 1][PosB(diffOut, n)] = dp[PosA(diffOut, n)][PosB(diffOut, n) + 1]
          /\ dp[PosA(diffOut, n)][PosB(diffOut, n)] > 0
          /\ diffOut[n].kind = "del"
          /\ \E m \in DOMAIN diffOut : m > n /\ diffOut[m].kind = "ins"

\* The elements of t at the indices in S, in order.
RECURSIVE pick(_, _, _)
pick(t, S, k) ==
  IF k > Len(t) THEN << >>
  ELSE (IF k \in S THEN << t[k] >> ELSE << >>) \o pick(t, S, k + 1)

\* The length of a longest common subsequence, by enumeration.
LongestCommon(at, bt) ==
  LET common == { pick(at, S, 1) : S \in SUBSET DOMAIN at }
                  \cap { pick(bt, S, 1) : S \in SUBSET DOMAIN bt }
  IN CHOOSE n \in 0..Len(at) :
       /\ \E c \in common : Len(c) = n
       /\ \A c \in common : Len(c) <= n

\* C17: for a # b the tokens pushed as unchanged are as many as a longest
\* common subsequence of the two token sequences, which is dp[0][0]; so the
\* deleted and inserted tokens are as few as possible.
C17_LcsLength ==
  (DiffDone /\ diffA # diffB) =>
     LET at == tokenize(diffA)
         bt == tokenize(diffB)
         lcs == LongestCommon(at, bt)
     IN /\ Cardinality(SegmentsOf(diffOut, "same")) = lcs
        /\ lcsMatrix(at, bt)[0][0] = lcs
        /\ Cardinality(SegmentsOf(diffOut, "del")) + Cardinality(SegmentsOf(diffOut, "ins"))
             = Len(at) + Len(bt) - 2 * lcs

\* A diff with unchanged, deleted and inserted tokens.
C17_Witness ==
  /\ DiffDone /\ diffA # diffB
  /\ SegmentsOf(diffOut, "same") # {}
  /\ SegmentsOf(diffOut, "del") # {}
  /\ SegmentsOf(diffOut, "ins") # {}

\* =============================================== components/DiffSidebar.tsx
\* A block as the sidebar reads it.  A missing id is the empty string; the
\* timestamp is nullable.
ReportBlock(id, speaker, timestamp, content) ==
  [id |-> id, speaker |-> speaker, timestamp |-> timestamp, content |-> content]

\* String.prototype.trim
RECURSIVE trimStart(_)
trimStart(s) ==
  IF s # << >> /\ whitespaceTest(Head(s)) THEN trimStart(Tail(s)) ELSE s

RECURSIVE trimEnd(_)
trimEnd(s) ==
  IF s # << >> /\ whitespaceTest(s[Len(s)]) THEN trimEnd(SubSeq(s, 1, Len(s) - 1)) ELSE s

trim(s) == trimEnd(trimStart(s))

\* normalize, on a string; and on block.timestamp ?? ''.
normalize(value) == trim(value)
normalizeNullable(value) == IF value = None THEN << >> ELSE trim(value[1])

Digits == { "0", "1", "2", "3", "4", "5", "6", "7", "8", "9" }

\* isMeaningfulBlock without the test on the first character of the speaker.
isMeaningfulBlockAnySpeaker(block) ==
  LET speaker == normalize(block.speaker)
      timestamp == normalizeNullable(block.timestamp)
  IN /\ speaker # << >> /\ timestamp # << >>
     /\ \E n \in DOMAIN timestamp : timestamp[n] = ":"

\* isMeaningfulBlock, for a block that is there.
isMeaningfulBlock(block) ==
  LET speaker == normalize(block.speaker)
      timestamp == normalizeNullable(block.timestamp)
  IN /\ speaker # << >> /\ timestamp # << >>
     /\ Head(speaker) \notin Digits
     /\ \E n \in DOMAIN timestamp : timestamp[n] = ":"

\* A pairing that never looks a block up by its id.
matchByIdNever(proc, id) == 0

\* matchById = orig.id ? procById.get(orig.id) : undefined, as the index of
\* the block in procList (0: undefined).  procById holds, for each id that is
\* not empty, the last block of procList that carries it.
matchById(proc, id) ==
  LET same == { n \in DOMAIN proc : proc[n].id = id /\ id # "" }
  IN IF same = {} THEN 0 ELSE CHOOSE n \in same : \A k \in same : k <= n

\* matchByIndex = matchById ? undefined : procList[index]
matchByIndex(proc, byId, index) ==
  IF byId # 0 THEN 0 ELSE IF index \in DOMAIN proc THEN index ELSE 0

\* counterpart = matchById ?? matchByIndex
counterpartOf(proc, id, index) ==
  LET byId == matchById(proc, id)
  IN IF byId # 0 THEN byId ELSE matchByIndex(proc, byId, index)

\* A test that takes two contents of the same length for equal.
differsByLength(left, right) == Len(left) # Len(right)

\* A test that takes any two contents for different.
differsAlways(left, right) == TRUE

\* if (left !== right)
differs(left, right) == left # right

\* The decimal digit of a small index.
DigitOf(n) == << "0", "1", "2", "3", "4", "5", "6", "7", "8", "9" >>[n + 1]

\* buildTitle: the speaker and the bracketed timestamp that are there, else
\* the fallback.
buildTitle(block, fallback) ==
  LET parts == (IF block.speaker # << >> THEN << block.speaker >> ELSE << >>)
               \o (IF block.timestamp # None /\ block.timestamp # Some(<< >>)
                     THEN << block.timestamp[1] >> ELSE << >>)
  IN IF parts # << >> THEN parts ELSE fallback

\* An entry of results; side and index say which block it was pushed for.
Entry(id, title, html, side, index) ==
  [id |-> id, title |-> title, html |-> html, side |-> side, index |-> index]

\* What the first loop pushes for original[index] (index counted from 1).
originalEntry(orig, proc, index) ==
  IF ~isMeaningfulBlock(orig[index]) THEN << >>
  ELSE LET cp == counterpartOf(proc, orig[index].id, index)
           left == orig[index].content
           right == IF cp # 0 THEN proc[cp].content ELSE << >>
       IN IF cp # 0 /\ ~isMeaningfulBlock(proc[cp]) THEN << >>
          ELSE IF differs(left, right)
            THEN << Entry(IF orig[index].id # "" THEN << orig[index].id >>
                                                  ELSE << "original-", DigitOf(index - 1) >>,
                          buildTitle(orig[index], << "#", DigitOf(index) >>),
                          diffToHtml(left, right).html, "original", index) >>
            ELSE << >>

\* A first loop that records no id as consumed.
consumedIdsNone(orig, proc) == {}

\* consumedIds and consumedIndexes after the first loop.
consumedIdsOf(orig, proc) ==
  { proc[matchById(proc, orig[k].id)].id :
      k \in { n \in DOMAIN orig : /\ isMeaningfulBlock(orig[n])
                                  /\ matchById(proc, orig[n].id) # 0 } }

consumedIndexesOf(orig, proc) ==
  { k \in DOMAIN orig : /\ isMeaningfulBlock(orig[k])
                        /\ matchById(proc, orig[k].id) = 0
                        /\ counterpartOf(proc, orig[k].id, k) # 0 }

\* A second loop that renders the block as removed text.
insertedEntryAsDeleted(orig, proc, index) ==
  LET block == proc[index]
  IN IF ~isMeaningfulBlock(block) THEN << >>
     ELSE IF \/ block.id # "" /\ block.id \in consumedIdsOf(orig, proc)
             \/ index \in consumedIndexesOf(orig, proc)
       THEN << >>
       ELSE << Entry(IF block.id # "" THEN << block.id >>
                                      ELSE << "processed-", DigitOf(index - 1) >>,
                     buildTitle(block, << "+", DigitOf(index) >>),
                     diffToHtml(block.content, << >>).html, "inserted", index) >>

\* What the second loop pushes for procList[index].
insertedEntry(orig, proc, index) ==
  LET block == proc[index]
  IN IF ~isMeaningfulBlock(block) THEN << >>
     ELSE IF \/ block.id # "" /\ block.id \in consumedIdsOf(orig, proc)
             \/ index \in consumedIndexesOf(orig, proc)
       THEN << >>
       ELSE << Entry(IF block.id # "" THEN << block.id >>
                                      ELSE << "processed-", DigitOf(index - 1) >>,
                     buildTitle(block, << "+", DigitOf(index) >>),
                     diffToHtml(<< >>, block.content).html, "inserted", index) >>

\* The entries of the first loop from index k on, and those of the second.
RECURSIVE originalEntries(_, _, _)
originalEntries(orig, proc, k) ==
  IF k > Len(orig) THEN << >>
  ELSE originalEntry(orig, proc, k) \o originalEntries(orig, proc, k + 1)

RECURSIVE insertedEntries(_, _, _)
insertedEntries(orig, proc, k) ==
  IF k > Len(proc) THEN << >>
  ELSE insertedEntry(orig, proc, k) \o insertedEntries(orig, proc, k + 1)

\* The counterpart the first loop computed for each original block: the
\* index of a block of procList, 0 for none, -1 for a block it passed over.
counterpartsOf(orig, proc) ==
  [k \in DOMAIN orig |->
     IF isMeaningfulBlock(orig[k]) THEN counterpartOf(proc, orig[k].id, k) ELSE -1]

\* The speaker and timestamp of the blocks of this specification: a block
\* that is meaningful, one whose fields need trimming, one whose speaker
\* starts with a digit, one without timestamp, one whose timestamp has no colon.
Plain == [speaker |-> << "A" >>, timestamp |-> Some(<< "0", ":", "1" >>)]
Padded == [speaker |-> << " ", "A" >>, timestamp |-> Some(<< "0", ":", "1", " " >>)]
Numbered == [speaker |-> << "1", "A" >>, timestamp |-> Some(<< "0", ":", "1" >>)]
Untimed == [speaker |-> << "A" >>, timestamp |-> None]
NoColon == [speaker |-> << "A" >>, timestamp |-> Some(<< "0", "1" >>)]

\* The id the parser gave the k-th original block.
OrigId(k) == << "p", "q", "r", "s" >>[k]

\* The original lists: up to MaxOrig blocks with the parser's ids and the
\* same content, each meaningful or not.
OrigLists ==
  UNION { { [k \in 1..n |-> ReportBlock(OrigId(k), f[k].speaker, f[k].timestamp, << "w" >>)] :
              f \in [1..n -> { Plain, Numbered, Untimed }] } : n \in 0..MaxOrig }

\* The ids of a list are pairwise distinct, as the ids of a document are.
DistinctIds(list) == \A i, j \in DOMAIN list : list[i].id = list[j].id => i = j

\* The rewritten lists: up to MaxProc blocks with distinct ids; the rewriter
\* may keep, move or replace ids, keep or change the content, and return
\* blocks that are not meaningful.
ProcLists ==
  UNION { { list \in [1..n -> { ReportBlock(id, f.speaker, f.timestamp, c) :
                                  id \in { "z" } \cup { OrigId(k) : k \in 1..MaxOrig },
                                  f \in { Padded, NoColon },
                                  c \in { << "w" >>, << "<" >> } }] :
              DistinctIds(list) } : n \in 0..MaxProc }

ReportOnly == UNCHANGED << runVars, serverVars, editVars, diffVars, readVars >>

InitReport ==
  /\ InitRun /\ doc = Some(ParsedDoc(0))
  /\ ServerIdle /\ EditIdle /\ DiffIdle /\ ReadIdle
  /\ original \in OrigLists
  /\ procList \in ProcLists \cup { original }   \* a rewrite may change nothing
  /\ changed = << >>
  /\ consumedIds = {} /\ consumedIndexes = {}
  /\ counterparts = << >>
  /\ reportPc = "input"

\* The useMemo computes changed from original and processed.
ComputeChanged ==
  /\ reportPc = "input"
  /\ changed' = originalEntries(original, procList, 1) \o insertedEntries(original, procList, 1)
  /\ consumedIds' = consumedIdsOf(original, procList)
  /\ consumedIndexes' = consumedIndexesOf(original, procList)
  /\ counterparts' = counterpartsOf(original, procList)
  /\ reportPc' = "done"
  /\ UNCHANGED << original, procList >>

NextReport == ComputeChanged /\ ReportOnly

SpecReport == InitReport /\ [][NextReport]_vars

\* ---------------------------------------------------- claims on the report
ReportDone == reportPc = "done"

\* Meaningful as the report's contract words it, on the fields as they are:
\* speaker and timestamp not empty, a colon in the timestamp, no digit at the
\* start of the speaker.
Meaningful(block) ==
  /\ block.speaker # << >>
  /\ block.timestamp # None /\ block.timestamp # Some(<< >>)
  /\ \E n \in DOMAIN block.timestamp[1] : block.timestamp[1][n] = ":"
  /\ Head(block.speaker) \notin Digits

\* The entries pushed for the original block k, and for the rewritten block k.
EntriesOfOriginal(k) ==
  { n \in DOMAIN changed : changed[n].side = "original" /\ changed[n].index = k }
EntriesOfInserted(k) ==
  { n \in DOMAIN changed : changed[n].side = "inserted" /\ changed[n].index = k }

\* C18: an entry for an original block only when the block, and its
\* counterpart if it has one, is meaningful; a wholly-inserted entry only for
\* a meaningful rewritten block.
C18_OnlyMeaningful ==
  ReportDone =>
    \A n \in DOMAIN changed :
      LET e == changed[n]
      IN IF e.side = "original"
           THEN /\ Meaningful(original[e.index]) /\ isMeaningfulBlock(original[e.index])
                /\ counterparts[e.index] > 0 =>
                     /\ Meaningful(procList[counterparts[e.index]])
                     /\ isMeaningfulBlock(procList[counterparts[e.index]])
           ELSE /\ Meaningful(procList[e.index]) /\ isMeaningfulBlock(procList[e.index])

\* A report with an entry for an original block that has a counterpart and a
\* wholly-inserted entry, from lists that also hold an original block whose
\* speaker starts with a digit.
C18_Witness ==
  /\ ReportDone
  /\ \E n \in DOMAIN changed :
       changed[n].side = "original" /\ counterparts[changed[n].index] > 0
  /\ \E n \in DOMAIN changed : changed[n].side = "inserted"
  /\ \E k \in DOMAIN original : original[k].speaker = Numbered.speaker

\* The original block k has a counterpart whose content differs from its own.
ChangedPair(k) ==
  /\ isMeaningfulBlock(original[k])
  /\ counterparts[k] > 0
  /\ procList[counterparts[k]].content # original[k].content

\* C19 as stated: every meaningful original block whose counterpart has a
\* different content has exactly one entry.
C19_AllChangedPairs ==
  ReportDone =>
    \A k \in DOMAIN original : ChangedPair(k) => Cardinality(EntriesOfOriginal(k)) = 1

\* C19, amended: every meaningful original block whose counterpart is
\* meaningful and has a different content has exactly one entry.
C19_AllMeaningfulChangedPairs ==
  ReportDone =>
    \A k \in DOMAIN original :
      (ChangedPair(k) /\ isMeaningfulBlock(procList[counterparts[k]]))
        => Cardinality(EntriesOfOriginal(k)) = 1

\* Two changed pairs, each with its entry.
C19_Witness ==
  /\ ReportDone
  /\ Cardinality({ k \in DOMAIN original :
                     ChangedPair(k) /\ isMeaningfulBlock(procList[counterparts[k]]) }) = 2
  /\ Cardinality({ n \in DOMAIN changed : changed[n].side = "original" }) = 2

\* The rewritten blocks that carry the id of the original block k.
SameId(k) == { n \in DOMAIN procList : procList[n].id = original[k].id /\ original[k].id # "" }

\* C20: the counterpart of an original block the report considers is a
\* rewritten block with its id when there is one, and otherwise, and only
\* then, the rewritten block at its index (none when the list is shorter).
C20_Pairing ==
  ReportDone =>
    \A k \in DOMAIN original :
      isMeaningfulBlock(original[k]) =>
        IF SameId(k) # {}
          THEN counterparts[k] \in SameId(k)
          ELSE counterparts[k] = (IF k \in DOMAIN procList THEN k ELSE 0)

\* One original block paired by id with a block at another index, another
\* paired by index with a block of a foreign id.
C20_Witness ==
  /\ ReportDone
  /\ \E k \in DOMAIN original :
       isMeaningfulBlock(original[k]) /\ counterparts[k] > 0 /\ counterparts[k] # k
         /\ counterparts[k] \in SameId(k)
  /\ \E k \in DOMAIN original :
       isMeaningfulBlock(original[k]) /\ SameId(k) = {} /\ counterparts[k] = k

\* The rewritten block n is the counterpart of some original block.
Paired(n) == \E k \in DOMAIN original : counterparts[k] = n

\* C21: every meaningful rewritten block paired with no original block has
\* exactly one entry, whose diff holds its whole content as inserted tokens
\* and nothing else; these entries come after the entries of the original
\* blocks, in the order of the rewritten document.
C21_UnpairedInserted ==
  ReportDone =>
    /\ \A n \in DOMAIN procList :
         (isMeaningfulBlock(procList[n]) /\ ~Paired(n)) =>
           /\ Cardinality(EntriesOfInserted(n)) = 1
           /\ \A e \in EntriesOfInserted(n) :
                changed[e].html = allInserted(tokenize(procList[n].content))
    /\ \A i, j \in DOMAIN changed :
         (i < j /\ changed[i].side = "inserted") =>
           changed[j].side = "inserted" /\ changed[i].index < changed[j].index

\* An entry of an original block followed by the entry of a rewritten block
\* that no original block was paired with and whose content needs escaping,
\* beside a rewritten block that was paired by index.
C21_Witness ==
  /\ ReportDone
  /\ consumedIndexes # {}
  /\ \E i, j \in DOMAIN changed :
       /\ i < j /\ changed[i].side = "original" /\ changed[j].side = "inserted"
       /\ ~Paired(changed[j].index)
       /\ procList[changed[j].index].content = << "<" >>

\* C22: an original block and its counterpart with the same content produce
\* no entry, neither for the original block nor for the counterpart; when
\* the rewritten list is the original list the report is empty.
C22_IdenticalNoEntry ==
  ReportDone =>
    /\ \A k \in DOMAIN original :
         (counterparts[k] > 0 /\ procList[counterparts[k]].content = original[k].content) =>
           EntriesOfOriginal(k) = {} /\ EntriesOfInserted(counterparts[k]) = {}
    /\ procList = original => changed = << >>

\* A rewrite that returned the original list, two blocks of it meaningful.
C22_Witness ==
  /\ ReportDone
  /\ procList = original
  /\ Cardinality({ k \in DOMAIN original : isMeaningfulBlock(original[k]) }) = 2
  /\ \A k \in DOMAIN original : counterparts[k] = k
  /\ changed = << >>

\* ------------------------------------------------ claims on the progress
\* A run starts: onLLMProcess issues the streaming request.
RunStarts == activeTask = "null" /\ activeTask' = "llm"

\* A run has settled and no reset of the progress is pending.
RunSettled == pc = "idle" /\ streamEnd # "none" /\ ~processingResetTimer

\* C23: the completed counter and the displayed progress are zero when a run
\* starts, and zero again once the run has settled, however it settled, and
\* the reset timer is no longer pending.
C23_ProgressZeroAtStartAndEnd ==
  /\ [][RunStarts => (processingProgress' = 0 /\ completedBlocksRef' = 0)]_vars
  /\ [](RunSettled => (processingProgress = 0 /\ completedBlocksRef = 0))

\* The part of C23 about the settled run, on its own.
C23_ZeroOnceSettled ==
  RunSettled => (processingProgress = 0 /\ completedBlocksRef = 0)

\* The run with the reset timer allowed to fire: a timeout that stays armed
\* is eventually run by the event loop while the component is mounted.
\* The frames that move the progress: a block_end for a block of the document.
TimerFrames ==
  [event : {"block_end"}, json : {"ok"}, id : 1..NumBlocks, text : {<< >>}]

NextTimer ==
  \/ onLLMProcess /\ RunOnly
  \/ abortLLMProcess /\ RunOnly
  \/ FetchOk /\ RunOnly
  \/ \E f \in TimerFrames : ReadFrame(f) /\ RunOnly
  \/ StreamDone /\ RunOnly
  \/ \E e \in {"AbortError", "TypeError"} : StreamRejects(e) /\ RunOnly
  \/ SyncOk /\ RunOnly
  \/ SyncFail /\ RunOnly
  \/ PreviewOk /\ RunOnly
  \/ PreviewFail /\ RunOnly
  \/ ProgressReset /\ RunOnly

SpecTimer == Init /\ [][NextTimer]_vars /\ WF_vars(ProgressReset /\ RunOnly)

\* C24: whenever the displayed progress is 100 the reset timer is armed, and
\* the progress and the completed counter are eventually back at 0.
C24_ProgressResets ==
  /\ [](processingProgress = 100 => processingResetTimer)
  /\ (processingProgress = 100) ~> (processingProgress = 0 /\ completedBlocksRef = 0)

\* The progress is 100 with the timer armed while the stream is still read:
\* every block of a document of two has had its block_end.
C24_Witness ==
  /\ processingProgress = 100 /\ processingResetTimer
  /\ pc = "read" /\ completedBlocksRef = 2

\* The run was reported complete: the stream ended with done, or the fallback
\* stored its response and the preview of it was rendered.
ReportedSuccess ==
  /\ pc = "idle"
  /\ toasts # << >>
  /\ toasts[Len(toasts)].type = "success"

\* C25: a run is reported as successfully completed only when every block of
\* the output document is processed; a stream that ends before every block
\* had its block_end is not reported as a success.
C25_SuccessOnlyWhenComplete ==
  ReportedSuccess => \A k \in DOMAIN OutBlocks : OutBlocks[k].processed

\* The last run ended cancelled, or failed in both the stream and the fallback.
LastRunCancelledOrFailed ==
  \/ streamEnd = "aborted"
  \/ streamEnd = "failed" /\ syncEnd = "failed"

\* The block carries the text of the parsed document or a finished rewrite.
SubmittableBlock(b, k) == b.processed \/ b.content = doc[1].blocks[k].content

\* C26: the run started after a cancelled or failed run submits, for every
\* block, the content of the parsed document or of a finished rewrite, never
\* a buffer the earlier run left blank or partly filled.
C26_NoLeftoverSubmitted ==
  [][(pc = "idle" /\ pc' = "fetch" /\ LastRunCancelledOrFailed)
       => \A k \in DOMAIN llmPayload' : SubmittableBlock(llmPayload'[k], k)]_vars

\* The blocks of the output document whose processed flag is true.
ProcessedBlocks == { k \in DOMAIN OutBlocks : OutBlocks[k].processed }

\* C27: at every point of a streaming run the completed counter is the
\* number of blocks of the output document that are processed, whatever
\* events the transport has delivered.
C27_CounterIsProcessedCount ==
  Streaming => completedBlocksRef = Cardinality(ProcessedBlocks)

\* ------------------------------------------- claims on the output document
\* The fields of a block that no event changes.
Identity(b) == [id |-> b.id, speaker |-> b.speaker, timestamp |-> b.timestamp]

\* C29: from the start of a streaming run until the stream ends the output
\* document has the blocks of the source document, one for one in the same
\* order with the same id, speaker and timestamp; the events change content
\* and processed only.
C29_StructureKept ==
  Streaming =>
    /\ Len(OutBlocks) = Len(llmPayload)
    /\ \A k \in DOMAIN OutBlocks : Identity(OutBlocks[k]) = Identity(llmPayload[k])

\* Two events applied to a document of two blocks: block 1 ended, block 2
\* partly streamed.
C29_Witness ==
  /\ Streaming /\ nframes = 2
  /\ Len(OutBlocks) = 2
  /\ OutBlocks[1].id = 1 /\ OutBlocks[1].processed
  /\ OutBlocks[2].id = 2 /\ OutBlocks[2].content = <<"a">> /\ ~OutBlocks[2].processed

\* C30: when the streaming request is issued every block of the output
\* document is blank and not processed; during the stream a block is
\* processed only if a block_end carrying its id was applied, and a processed
\* block stays processed.
C30_ProcessedOnlyByBlockEnd ==
  /\ [][(pc = "idle" /\ pc' = "fetch")
          => \A k \in DOMAIN OutBlocks' :
               OutBlocks'[k].content = << >> /\ ~OutBlocks'[k].processed]_vars
  /\ [](Streaming =>
          \A k \in DOMAIN OutBlocks :
            OutBlocks[k].processed => received[OutBlocks[k].id] = Ended)
  /\ [][(Streaming /\ Streaming')
          => \A k \in DOMAIN OutBlocks :
               OutBlocks[k].processed => OutBlocks'[k].processed]_vars

\* A second run over the result of a first one: the source blocks were
\* processed, block 1 has been ended again and block 2 not yet.
C30_Witness ==
  /\ Streaming
  /\ Len(OutBlocks) = 2
  /\ llmPayload[1].processed
  /\ OutBlocks[1].processed /\ received[1] = Ended
  /\ ~OutBlocks[2].processed

\* ============================================ the read loop of processStream
\* The text of the response body is a sequence of characters; the name of a
\* field, an event name and a JSON text stand for the characters they are
\* made of and are not split, every other boundary may fall between two reads.
LF == "\n"
JsonDelta == "{\"id\":1,\"text\":\"a\"}"

\* buffer.indexOf('\n\n'), counted from 1; 0 when there is none.
indexOfDelim(buf) ==
  LET hits == { i \in 1..(Len(buf) - 1) : buf[i] = LF /\ buf[i + 1] = LF }
  IN IF hits = {} THEN 0 ELSE CHOOSE i \in hits : \A j \in hits : i <= j

\* raw.split('\n')
RECURSIVE splitLines(_, _)
splitLines(raw, line) ==
  IF raw = << >> THEN << line >>
  ELSE IF Head(raw) = LF THEN << line >> \o splitLines(Tail(raw), << >>)
  ELSE splitLines(Tail(raw), Append(line, Head(raw)))

\* ln.startsWith(prefix), for a prefix that is a field name.
startsWith(ln, prefix) == ln # << >> /\ Head(ln) = prefix

\* The for loop over the lines: the last event: line names the event, the
\* data: lines are concatenated, any other line is ignored.
RECURSIVE parseLines(_, _, _)
parseLines(lines, event, data) ==
  IF lines = << >> THEN [event |-> event, data |-> data]
  ELSE LET ln == Head(lines)
       IN IF startsWith(ln, "event:") THEN parseLines(Tail(lines), trim(Tail(ln)), data)
          ELSE IF startsWith(ln, "data:") THEN parseLines(Tail(lines), event, data \o trim(Tail(ln)))
          ELSE parseLines(Tail(lines), event, data)

\* JSON.parse(data) returns for the JSON text and throws for anything else.
jsonParses(data) == data = << JsonDelta >>

\* The frame a raw text between two blank lines is read as: its event name
\* ('message' unless an event: line names one) and what its data holds.
frameOf(raw) ==
  LET p == parseLines(splitLines(raw, << >>), << "message" >>, << >>)
  IN [event |-> IF Len(p.event) = 1 THEN p.event[1] ELSE "",
      json |-> IF p.data = << >> THEN "none" ELSE IF jsonParses(p.data) THEN "ok" ELSE "bad",
      id |-> IF jsonParses(p.data) THEN 1 ELSE NoSuchId,
      text |-> IF jsonParses(p.data) THEN << "a" >> ELSE << >>]

\* The inner while loop: cut the buffer at each blank line and hand every
\* frame whose data parses to emit; what follows the last blank line stays.
RECURSIVE drain(_, _)
drain(buf, out) ==
  LET idx == indexOfDelim(buf)
  IN IF idx = 0 THEN [buffer |-> buf, emitted |-> out]
     ELSE LET raw == SubSeq(buf, 1, idx - 1)
              rest == SubSeq(buf, idx + 2, Len(buf))
              f == frameOf(raw)
          IN drain(rest, IF f.json = "ok" THEN Append(out, f) ELSE out)

\* A loop that starts each read with an empty buffer.
appendChunkDropRest(buf, chunk) == chunk

\* buffer += decoder.decode(value, { stream: true })
appendChunk(buf, chunk) == buf \o chunk

\* The lines a response body is made of: an event line, a data line with
\* JSON, a data line with text that is not JSON, and an empty line.
Pieces ==
  { << "event:", " ", "delta", LF >>,
    << "data:", " ", JsonDelta, LF >>,
    << "data:", "{", LF >>,
    << LF >> }

\* The bodies of up to n lines.
RECURSIVE WireTexts(_)
WireTexts(n) ==
  IF n = 0 THEN { << >> }
  ELSE LET shorter == WireTexts(n - 1)
       IN shorter \cup { t \o p : t \in shorter, p \in Pieces }

ReadOnly == UNCHANGED << runVars, serverVars, editVars, diffVars, reportVars >>

InitRead ==
  /\ InitRun /\ doc = Some(ParsedDoc(0))
  /\ ServerIdle /\ EditIdle /\ DiffIdle /\ ReportIdle
  /\ wire \in WireTexts(MaxPieces)
  /\ nread = 0
  /\ streamBuffer = << >>                 \* let buffer = ''
  /\ emitted = << >>
  /\ loopPc = "read"

\* reader.read() resolves with the next n characters of the body.
ReadChunk(n) ==
  /\ loopPc = "read"
  /\ nread + n <= Len(wire)
  /\ LET r == drain(appendChunk(streamBuffer, SubSeq(wire, nread + 1, nread + n)), emitted)
     IN /\ streamBuffer' = r.buffer
        /\ emitted' = r.emitted
  /\ nread' = nread + n
  /\ UNCHANGED << wire, loopPc >>

\* reader.read() resolves with done once the body has been read: break.
ReadDone ==
  /\ loopPc = "read"
  /\ nread = Len(wire)
  /\ loopPc' = "done"
  /\ UNCHANGED << wire, nread, streamBuffer, emitted >>

NextRead ==
  \/ \E n \in 1..Len(wire) : ReadChunk(n) /\ ReadOnly
  \/ ReadDone /\ ReadOnly

SpecRead == InitRead /\ [][NextRead]_vars

\* ------------------------------------------------- claims on the read loop
\* The text read so far.
Delivered == SubSeq(wire, 1, nread)

IsSuffix(a, b) == Len(a) <= Len(b) /\ SubSeq(b, Len(b) - Len(a) + 1, Len(b)) = a

\* C28: the frames handed to emit and the text left in the buffer are those
\* of the text read so far taken as one chunk, however the reads cut it: a
\* frame is emitted once its blank line has arrived, the frames are emitted
\* in the order of the text and none is emitted twice or taken back, and the
\* text after the last blank line stays in the buffer, unapplied.
C28_ChunkingIrrelevant ==
  /\ [](loopPc \in {"read", "done"} =>
          /\ emitted = drain(Delivered, << >>).emitted
          /\ streamBuffer = drain(Delivered, << >>).buffer
          /\ indexOfDelim(streamBuffer) = 0
          /\ IsSuffix(streamBuffer, Delivered))
  /\ [][IsPrefix(emitted, emitted')]_vars

\* One frame has been emitted and the event line of the next one is in the
\* buffer, cut after the field name, with more text to come.
C28_Witness ==
  /\ loopPc = "read"
  /\ Len(emitted) = 1
  /\ streamBuffer = << "event:", " " >>
  /\ nread < Len(wire)

\* ------------------------------------------- claims on the other handlers
\* No LLM run has written the output document beside the operation.
NoRunBeside == pc = "idle" /\ streamEnd = "none" /\ requests = << >>

\* C31: when onUpload or onProcess ends by reporting a failure, the parsed
\* document and the output document are those the operation started with.
C31_FailureKeepsDocuments ==
  /\ [][(UploadFail /\ NoRunBeside)
          => (doc' = uploadStart[1] /\ processed' = uploadStart[2])]_vars
  /\ [][(RuleFail /\ NoRunBeside)
          => (doc' = ruleStart[1] /\ processed' = ruleStart[2])]_vars

\* ------------------------------------------ more claims on the change report
\* C32: within one report no rewritten block is the counterpart of two
\* different original blocks, whether paired by id or by position.
C32_AtMostOneOriginal ==
  ReportDone =>
    \A k1, k2 \in DOMAIN original :
      (counterparts[k1] > 0 /\ counterparts[k1] = counterparts[k2]) => k1 = k2

\* The rewritten block n carries the id of some original block.
HasOriginalId(n) ==
  procList[n].id # "" /\ \E k \in DOMAIN original : original[k].id = procList[n].id

HasMeaningfulOriginalId(n) ==
  procList[n].id # "" /\ \E k \in DOMAIN original :
                           original[k].id = procList[n].id /\ isMeaningfulBlock(original[k])

RECURSIVE TokensOf(_, _)
TokensOf(out, kinds) ==
  IF out = << >> THEN << >>
  ELSE (IF Head(out).kind \in kinds THEN << Head(out).token >> ELSE << >>)
       \o TokensOf(Tail(out), kinds)

\* The tokens of a sequence, one after the other, as one string.
RECURSIVE Concat(_)
Concat(tokens) == IF tokens = << >> THEN << >> ELSE Head(tokens) \o Concat(Tail(tokens))

\* C34: for a # b the unchanged and deleted tokens of the diff, in order,
\* are tokenize(a), the unchanged and inserted tokens are tokenize(b), and
\* the tokens of either put together are the input again.
C34_DiffCoversInputs ==
  (DiffDone /\ diffA # diffB) =>
     /\ TokensOf(diffOut, {"same", "del"}) = tokenize(diffA)
     /\ TokensOf(diffOut, {"same", "ins"}) = tokenize(diffB)
     /\ Concat(TokensOf(diffOut, {"same", "del"})) = diffA
     /\ Concat(TokensOf(diffOut, {"same", "ins"})) = diffB

\* A diff of the example text with unchanged, deleted and inserted tokens.
C34_Witness ==
  /\ DiffDone /\ diffA = ExampleText
  /\ SegmentsOf(diffOut, "same") # {}
  /\ SegmentsOf(diffOut, "del") # {}
  /\ SegmentsOf(diffOut, "ins") # {}

\* The token holds whitespace only.
IsBlank(token) == token # << >> /\ \A n \in DOMAIN token : whitespaceTest(token[n])

\* The places of s where a run of whitespace starts.
BlankRunStarts(s) ==
  { n \in DOMAIN s : whitespaceTest(s[n]) /\ (n = 1 \/ ~whitespaceTest(s[n - 1])) }

WhitespaceRules(s) ==
  LET t == tokenize(s)
  IN /\ \A n \in DOMAIN t : t[n] # << >>
     /\ \A n \in DOMAIN t : (\E m \in DOMAIN t[n] : whitespaceTest(t[n][m])) => IsBlank(t[n])
     /\ \A n \in DOMAIN t : n > 1 => ~(IsBlank(t[n - 1]) /\ IsBlank(t[n]))
     /\ Cardinality({ n \in DOMAIN t : IsBlank(t[n]) }) = Cardinality(BlankRunStarts(s))
     /\ s = << >> => t = << >>

\* C35: tokenize yields no empty token and no two adjacent whitespace
\* tokens; each maximal run of whitespace is one token; the empty string has
\* no tokens.
C35_WhitespaceMerged == WhitespaceRules(diffA) /\ WhitespaceRules(diffB)

\* A call with the empty string and a string that starts with a run of two
\* whitespace characters.
C35_Witness ==
  /\ DiffDone
  /\ diffA = << >>
  /\ diffB = << " ", " ", "w" >>
  /\ Len(tokenize(diffB)) = 2

\* Every token wrapped as deleted, one after the other.
RECURSIVE allDeleted(_)
allDeleted(tokens) ==
  IF tokens = << >> THEN << >>
  ELSE << DelOpen >> \o escapeHtml(Head(tokens)) \o << SpanClose >>
       \o allDeleted(Tail(tokens))

\* C36: once the reconstruction has used up the tokens of b, every token of
\* a that is left is pushed as deleted, and once it has used up those of a,
\* every token of b that is left is pushed as inserted, in order and to the
\* last one; diffToHtml('', b) is b all inserted and diffToHtml(a, '') is a
\* all deleted.
C36_RemainderDrained ==
  (DiffDone /\ diffA # diffB) =>
     LET at == tokenize(diffA)
         bt == tokenize(diffB)
     IN /\ \A n \in DOMAIN diffOut :
             /\ PosB(diffOut, n) = Len(bt) =>
                  diffOut[n] = Segment("del", at[PosA(diffOut, n) + 1])
             /\ PosA(diffOut, n) = Len(at) =>
                  diffOut[n] = Segment("ins", bt[PosB(diffOut, n) + 1])
        /\ PosA(diffOut, Len(diffOut) + 1) = Len(at)
        /\ PosB(diffOut, Len(diffOut) + 1) = Len(bt)
        /\ diffA = << >> => diffHtml = allInserted(bt)
        /\ diffB = << >> => diffHtml = allDeleted(at)

\* The example text against a single space: after the space matched, the two
\* tokens of a that are left are pushed as deleted.
C36_Witness ==
  /\ DiffDone /\ diffA = ExampleText /\ diffB = << " " >>
  /\ Len(diffOut) = 5
  /\ diffOut[3].kind = "same"
  /\ diffOut[4].kind = "del" /\ diffOut[5].kind = "del"

\* The text of an html string without the three tags.
Body(html) == SelectSeq(html, LAMBDA c : c \notin { DelOpen, InsOpen, SpanClose })

\* Reading the entities of a text back: &amp; &lt; &gt; become & < >.
RECURSIVE unescape(_)
unescape(t) ==
  IF t = << >> THEN << >>
  ELSE IF Len(t) >= 5 /\ SubSeq(t, 1, 5) = << "&", "a", "m", "p", ";" >>
    THEN << "&" >> \o unescape(SubSeq(t, 6, Len(t)))
  ELSE IF Len(t) >= 4 /\ SubSeq(t, 1, 4) = << "&", "l", "t", ";" >>
    THEN << "<" >> \o unescape(SubSeq(t, 5, Len(t)))
  ELSE IF Len(t) >= 4 /\ SubSeq(t, 1, 4) = << "&", "g", "t", ";" >>
    THEN << ">" >> \o unescape(SubSeq(t, 5, Len(t)))
  ELSE << Head(t) >> \o unescape(Tail(t))

\* Every & of the text starts one of the three entities.
OnlyEntities(t) ==
  \A n \in DOMAIN t :
    t[n] = "&" =>
      \/ n + 4 <= Len(t) /\ SubSeq(t, n, n + 4) = << "&", "a", "m", "p", ";" >>
      \/ n + 3 <= Len(t) /\ SubSeq(t, n, n + 3) \in { << "&", "l", "t", ";" >>,
                                                       << "&", "g", "t", ";" >> }

\* A character as it must appear in html text.
EscapedChar(c) ==
  IF c = "&" THEN << "&", "a", "m", "p", ";" >>
  ELSE IF c = "<" THEN << "&", "l", "t", ";" >>
  ELSE IF c = ">" THEN << "&", "g", "t", ";" >>
  ELSE << c >>

RECURSIVE EscapedText(_)
EscapedText(t) == IF t = << >> THEN << >> ELSE EscapedChar(Head(t)) \o EscapedText(Tail(t))

\* The html the segments call for: each deleted or inserted token in its
\* span, each unchanged token bare, every character escaped once.
RECURSIVE Marked(_)
Marked(out) ==
  IF out = << >> THEN << >>
  ELSE LET seg == Head(out)
           open == IF seg.kind = "del" THEN << DelOpen >>
                   ELSE IF seg.kind = "ins" THEN << InsOpen >> ELSE << >>
           close == IF seg.kind = "same" THEN << >> ELSE << SpanClose >>
       IN open \o EscapedText(seg.token) \o close \o Marked(Tail(out))

\* C37: in the output of diffToHtml no < or > of the input is left bare and
\* every & starts an entity; read back, the text is the text of the tokens;
\* the only tags are one diff-del span around each deleted token and one
\* diff-ins span around each inserted token, none around an unchanged one.
C37_EscapedAndMarked ==
  DiffDone =>
    /\ RangeOf(Body(diffHtml)) \cap { "<", ">" } = {}
    /\ OnlyEntities(Body(diffHtml))
    /\ unescape(Body(diffHtml)) = (IF diffA = diffB THEN diffA ELSE Concat(TokensOf(diffOut, {"same", "del", "ins"})))
    /\ diffA # diffB => diffHtml = Marked(diffOut)

\* The markup text against a text that keeps its first token: an unchanged
\* token, deleted tokens and an inserted token that all need escaping.
C37_Witness ==
  /\ DiffDone /\ diffA = MarkupText /\ diffB = << "w", "<", "&" >>
  /\ SegmentsOf(diffOut, "same") # {}
  /\ SegmentsOf(diffOut, "del") # {}
  /\ SegmentsOf(diffOut, "ins") # {}

\* ------------------------------------------- frames with another event name
\* A frame with no event: line, and one whose event: line names an event that
\* is neither delta nor block_end; the data of both parses.
RawNoEvent == << "data:", " ", JsonDelta >>
RawPing == << "event:", " ", "ping", LF, "data:", " ", JsonDelta >>

\* The frames the read loop makes of them.
IgnoredFrames == { frameOf(RawNoEvent), frameOf(RawPing) }

\* A delta for a block of the document.
DeltaFrames == [event : {"delta"}, json : {"ok"}, id : 1..NumBlocks, text : {<<"a">>}]

\* The run on a stream of deltas and of frames with another event name.
NextIgnored ==
  \/ onLLMProcess /\ RunOnly
  \/ abortLLMProcess /\ RunOnly
  \/ FetchOk /\ RunOnly
  \/ \E f \in IgnoredFrames \cup DeltaFrames : ReadFrame(f) /\ RunOnly
  \/ StreamDone /\ RunOnly
  \/ \E e \in {"AbortError", "TypeError"} : StreamRejects(e) /\ RunOnly
  \/ SyncOk /\ RunOnly
  \/ SyncFail /\ RunOnly
  \/ PreviewOk /\ RunOnly
  \/ PreviewFail /\ RunOnly
  \/ ProgressReset /\ RunOnly

SpecIgnored == Init /\ [][NextIgnored]_vars

\* C38: a frame whose data parses and whose event name is neither delta nor
\* block_end, the frame without an event line included, leaves the output
\* document and the progress counter as they are.
C38_OtherEventIgnored ==
  /\ \A f \in IgnoredFrames : f.json = "ok" /\ f.event \notin {"delta", "block_end"}
  /\ frameOf(RawNoEvent).event = "message"
  /\ [][\A f \in IgnoredFrames :
          ReadFrame(f) => UNCHANGED << processed, completedBlocksRef, processingProgress >>]_vars

\* Two frames read, one of them a delta for block 1 and the other a frame
\* with another event name: the block holds the text of the delta only.
C38_Witness ==
  /\ pc = "read" /\ nframes = 2
  /\ Len(OutBlocks) >= 1
  /\ OutBlocks[1].content = <<"a">>
  /\ \A k \in DOMAIN OutBlocks : k # 1 => OutBlocks[k].content = << >>
  /\ completedBlocksRef = 0 /\ processingProgress = 5

\* -------------------------------------------------- one task at a time
\* The LLM run, the rule task and the upload side by side.  The stream of
\* this specification ends or fails before it carries a frame and no block
\* is edited; what matters here is which handler may start while another is
\* suspended.
NextTasks ==
  \/ onLLMProcess /\ RunOnly
  \/ abortLLMProcess /\ RunOnly
  \/ FetchOk /\ RunOnly
  \/ StreamDone /\ RunOnly
  \/ \E e \in {"AbortError", "TypeError"} : StreamRejects(e) /\ RunOnly
  \/ SyncOk /\ RunOnly
  \/ SyncFail /\ RunOnly
  \/ PreviewOk /\ RunOnly
  \/ PreviewFail /\ RunOnly
  \/ ProgressReset /\ RunOnly
  \/ onUpload /\ EditOnly
  \/ \E n \in 0..NumBlocks : UploadOk(n) /\ EditOnly
  \/ UploadFail /\ EditOnly
  \/ UploadPreviewOk /\ EditOnly
  \/ onProcess /\ EditOnly
  \/ \E n \in 0..NumBlocks : RuleOk(n) /\ EditOnly
  \/ RuleFail /\ EditOnly
  \/ RulePreviewOk /\ EditOnly

SpecTasks == Init /\ [][NextTasks]_vars

\* The LLM run, or the rule task, is between its start and its `finally`.
LlmRunning == pc # "idle"
RuleRunning == rulePc # "idle"

\* The buttons that start a task are enabled and the guard of the handlers
\* lets a call through.
StartEnabled == doc # None /\ ~loading /\ activeTask = "null"

\* C39: the LLM run and the rule task are never active together; while one
\* of them is active the task is recorded, the start buttons are disabled,
\* and no step starts a task, so that no request is issued and no state
\* changed by an attempt to start one.
C39_OneTaskAtATime ==
  /\ [](~(LlmRunning /\ RuleRunning))
  /\ [](LlmRunning => activeTask = "llm")
  /\ [](RuleRunning => activeTask = "rule")
  /\ []((LlmRunning \/ RuleRunning) => ~StartEnabled)
  /\ [][(onProcess \/ onLLMProcess) => ~(LlmRunning \/ RuleRunning)]_vars

\* An LLM run is suspended on its stream while an upload that started after
\* it has settled and cleared loading: the guard of the handlers would let a
\* start through and the disabled buttons keep it out.
C39_Witness ==
  /\ LlmRunning /\ pc = "read" /\ activeTask = "llm"
  /\ ~loading /\ doc # None
  /\ uploadPc = "idle" /\ nedits = 1

\* ------------------------------------------------------ the run settles
\* A request of the run that is pending comes to an end: the fetch resolves
\* or rejects, the stream ends or fails, the fallback request and its
\* preview resolve or reject.
RequestSettles ==
  \/ FetchOk
  \/ StreamDone
  \/ \E e \in {"AbortError", "TypeError"} : StreamRejects(e)
  \/ SyncOk
  \/ SyncFail
  \/ PreviewOk
  \/ PreviewFail

\* The run whose requests terminate, on a stream of block_end frames: no
\* frame ends the read loop, which catches what emit and JSON.parse throw.
SpecSettle == Init /\ [][NextTimer]_vars /\ WF_vars(RequestSettles /\ RunOnly)

\* C40: a run whose requests terminate settles, and once it has settled,
\* whichever way, loading is false, no task is active and the ref holds no
\* abort controller: a cancel finds nothing to abort and the guard of a new
\* run passes.
C40_RunSettlesClean ==
  /\ [](pc = "idle" =>
          /\ ~loading /\ activeTask = "null" /\ abortControllerRef = "null"
          /\ StartEnabled)
  /\ (pc # "idle") ~> (pc = "idle")

\* A run has settled after its stream and its fallback both failed.
C40_Witness ==
  /\ pc = "idle" /\ streamEnd = "failed" /\ syncEnd = "failed"
  /\ ~loading /\ activeTask = "null" /\ abortControllerRef = "null"
  /\ Len(requests) = 2

====
